---- MODULE Spec2Model ----
(***************************************************************************)
(* A model of PyLink's server-to-server protocol engine: the P10 dialect   *)
(* (src/protocols/p10.py), the code shared by the TS6 family               *)
(* (src/protocols/ts6_common.py) and the state store they mutate.          *)
(*                                                                         *)
(* The state store is the triple (servers, users, channels).  Every        *)
(* handler and outbound operation is a pure operator from a store to a     *)
(* store; the actions commit the operator's result.                        *)
(***************************************************************************)
EXTENDS Integers, Sequences, FiniteSets, TLC

----------------------------------------------------------------------------
(* Bounds and program constants *)

\* Timestamps are drawn from 1..MaxTS; 0 stands for "no timestamp given"
\* (Python's None / a falsy ts).
MaxTS == 2

\* p10.py:15
S2S_BUFSIZE == 510

None == "None"

----------------------------------------------------------------------------
(* The universe *)

\* Our own server and the uplink.
OwnSID == "AA"
UplinkSID == "AB"
\* NewSID is the SID of a server we may spawn.
NewSID == "AC"
SIDs == {OwnSID, UplinkSID, NewSID}

\* U1 is a client we own, R1 is a client on the uplink; GhostUID is a
\* numeric that is in no user table; U2 is the UID the generator of our server
\* hands out next.
U1 == "AAAAA"
U2 == "AAAAB"
R1 == "ABAAA"
GhostUID == "ABAAZ"
R2 == "ACAAA"
UIDs == {U1, U2, R1, GhostUID, R2}

ChanA == "#a"
ChanB == "#b"
ChanUpper == "#A"
ChanNames == {ChanA, ChanB, ChanUpper}

\* Channel modes of the model: +n +m (type D), +z (permanent, type D),
\* +b (type A, list mode); o and v are the prefix modes.
PrefixChars == {"o", "v"}
ListChars == {"b", "e"}

VARIABLES
    servers,    \* SID -> [exists, internal, uplink, users]
    users,      \* UID -> [exists, nick, ts, server, channels, away]
    channels,   \* channel name -> [exists, ts, users, modes, prefixmodes, topic, topicset]
    sent,       \* the wire lines written by the operation that ran last
    last,       \* what the operation that ran last was (history)
    pc,         \* position inside an outbound operation that runs statement by statement
    fn,         \* input and output of a line-building function under study
    protocol,   \* the protocol class of the link: "p10" or "ts6"
    self_uplink, \* self.uplink: the SID of the server we are linked to, or None
    sidgen,     \* the state of the SID generator of the link
    networkobjects, \* utils.networkobjects: network name -> the network's state
    relay       \* the globals of the relay plugin: relayusers, db, the export scheduler

vars == <<servers, users, channels, sent, last, pc, fn, protocol, self_uplink, sidgen, networkobjects, relay>>

----------------------------------------------------------------------------
(* Entities *)

\* No other network and no relay plugin.
NoNetworks == <<>>
NoRelay == [kind |-> "none"]

NoServer == [exists |-> FALSE, internal |-> FALSE, uplink |-> None, users |-> {}]
NoUser == [exists |-> FALSE, nick |-> None, ts |-> 0, server |-> None,
           channels |-> {}, away |-> ""]
NoPrefixes == [c \in PrefixChars |-> {}]
NoChan == [exists |-> FALSE, ts |-> 0, users |-> {}, modes |-> {},
           prefixmodes |-> NoPrefixes, topic |-> "", topicset |-> FALSE]

\* IrcChannel(): a fresh channel, created by the first access to
\* self.channels[name] (a defaultdict); its TS is the wall clock at creation.
NewChan(clock) == [NoChan EXCEPT !.exists = TRUE, !.ts = clock]

\* self.channels[name]: the access itself creates a missing channel.
Touch(chs, ch, clock) ==
    IF chs[ch].exists THEN chs ELSE [chs EXCEPT ![ch] = NewChan(clock)]

\* IrcChannel.deepcopy(): a copy that shares nothing with the live channel.
deepcopy(obj) == obj

isInternalServer(st, sid) ==
    sid \in DOMAIN st.servers /\ st.servers[sid].exists /\ st.servers[sid].internal

isInternalClient(st, uid) ==
    /\ uid \in UIDs
    /\ st.users[uid].exists
    /\ isInternalServer(st, st.users[uid].server)

Min(a, b) == IF a <= b THEN a ELSE b

\* self.toLower(name): the name in lower case.  Of the channel names of the
\* model only "#A" has an upper-case letter.
toLower(name) == IF name = ChanUpper THEN ChanA ELSE name

----------------------------------------------------------------------------
(* Mode changes are <<sign, char, arg>>; a channel's modes are <<char, arg>> *)

RECURSIVE SetToSeq(_)
SetToSeq(S) ==
    IF S = {} THEN <<>>
    ELSE LET x == CHOOSE y \in S : TRUE IN <<x>> \o SetToSeq(S \ {x})

\* One mode change applied to a channel.
applyMode(c, m) ==
    LET sign == m[1]
        char == m[2]
        arg == m[3]
    IN IF char \in PrefixChars
       THEN [c EXCEPT !.prefixmodes[char] =
                IF sign = "+" THEN @ \cup {arg} ELSE @ \ {arg}]
       ELSE IF sign = "+"
       THEN [c EXCEPT !.modes =
                IF char \in ListChars THEN @ \cup {<<char, arg>>}
                ELSE {p \in @ : p[1] # char} \cup {<<char, arg>>}]
       ELSE [c EXCEPT !.modes =
                IF char \in ListChars THEN @ \ {<<char, arg>>}
                ELSE {p \in @ : p[1] # char}]

RECURSIVE applyModes(_, _)
applyModes(c, modes) ==
    IF modes = <<>> THEN c
    ELSE applyModes(applyMode(c, Head(modes)), Tail(modes))

\* updateTS(sender, channel, their_ts, modes): the TS reconciliation.
updateTS(c, their_ts, modes) ==
    IF their_ts < c.ts
    THEN applyModes([c EXCEPT !.ts = their_ts, !.modes = {},
                              !.prefixmodes = NoPrefixes], SetToSeq(modes))
    ELSE IF their_ts = c.ts
    THEN applyModes(c, SetToSeq(modes))
    ELSE c

----------------------------------------------------------------------------
(* The store handed from operator to operator *)

Store == [servers |-> servers, users |-> users, channels |-> channels,
          sent |-> <<>>, raised |-> FALSE]

Commit(st) ==
    \E r \in {st} :
        /\ servers' = r.servers
        /\ users' = r.users
        /\ channels' = r.channels
        /\ sent' = r.sent

InUsers(st, uid) == uid \in UIDs /\ st.users[uid].exists

Line(source, cmd, params) == [source |-> source, cmd |-> cmd, params |-> params]

\* self.send(...)
send(st, line) == [st EXCEPT !.sent = Append(@, line)]

\* IrcChannel.removeuser: out of the member set and of every prefix mode list.
removeuser(c, uid) ==
    [c EXCEPT !.users = @ \ {uid},
              !.prefixmodes = [p \in PrefixChars |-> @[p] \ {uid}]]

----------------------------------------------------------------------------
(* P10Protocol.handle_burst *)

\* A BURST line as the parser hands it over: the channel, the timestamp, then
\* the optional arguments of the grammar
\*     3+ [<modes> [<mode extra parameters>]] [<users>] [<bans>]
\* modes: set of mode changes, {} when the line has no modestring;
\* userlist: sequence of [uid, annotated, prefixes], <<>> when the line has no
\* user list; bans: set of ban mode changes, {} when the line has no ban list.
\* The modes of the model take no parameter: a modestring is one argument.
ModeToken == "+modes"

BurstArgs(b) ==
    <<"chan", "ts">>
      \o (IF b.modes # {} THEN <<"modes">> ELSE <<>>)
      \o (IF b.userlist # <<>> THEN <<"users">> ELSE <<>>)
      \o (IF b.bans # {} THEN <<"bans">> ELSE <<>>)

\* args after the ban list has been cut off (lines 1009-1027).
BurstArgsNoBans(b) ==
    LET a == BurstArgs(b)
    IN IF a[Len(a)] = "bans" THEN SubSeq(a, 1, Len(a) - 1) ELSE a

\* parsedmodes: modestring = args[2:-1] (lines 1031-1035); the last argument
\* is taken to be the user list, also when it is the modestring.
BurstParsedModes(b) ==
    LET a == BurstArgsNoBans(b)
        modestring == SubSeq(a, 3, Len(a) - 1)
    IN IF modestring # <<>> THEN b.modes ELSE {}

\* userlist = args[-1].split(',') (line 1041), iterated only when the last
\* argument is not the timestamp (line 1044).
BurstUserList(b) ==
    LET a == BurstArgsNoBans(b)
        lastarg == a[Len(a)]
    IN IF lastarg = "users" THEN b.userlist
       ELSE IF lastarg = "modes"
       THEN <<[uid |-> ModeToken, annotated |-> FALSE, prefixes |-> {}]>>
       ELSE <<>>

\* A loop body that records the user but does not make it a member.
burst_adduser_nomember(acc, ch, user) ==
    [acc EXCEPT
        !.namelist = Append(@, user),
        !.changedmodes = @ \cup {<<"+", m, user>> : m \in acc.prefixes},
        !.st.users[user].channels = @ \cup {ch}]

\* A loop body that flips the membership instead of adding to it.
burst_adduser_toggle(acc, ch, user) ==
    [acc EXCEPT
        !.namelist = Append(@, user),
        !.changedmodes = @ \cup {<<"+", m, user>> : m \in acc.prefixes},
        !.st.users[user].channels = @ \cup {ch},
        !.st.channels[ch].users = (@ \cup {user}) \ (@ \cap {user})]

\* The body of the loop over the user list (lines 1045-1070); acc carries
\* prefixes, namelist, changedmodes and the store.
burst_adduser(acc, ch, user) ==
    [acc EXCEPT
        !.namelist = Append(@, user),
        !.changedmodes = @ \cup {<<"+", m, user>> : m \in acc.prefixes},
        !.st.users[user].channels = @ \cup {ch},
        !.st.channels[ch].users = @ \cup {user}]

\* A loop in which an entry without annotation carries no prefix modes.
RECURSIVE burst_loop_nocarry(_, _, _)
burst_loop_nocarry(acc, ch, userlist) ==
    IF userlist = <<>> THEN acc
    ELSE LET userpair == Head(userlist)
             acc1 == [acc EXCEPT !.prefixes = userpair.prefixes]
         IN IF ~InUsers(acc1.st, userpair.uid)
            THEN burst_loop_nocarry(acc1, ch, Tail(userlist))
            ELSE burst_loop_nocarry(burst_adduser(acc1, ch, userpair.uid), ch,
                                    Tail(userlist))

RECURSIVE burst_loop(_, _, _)
burst_loop(acc, ch, userlist) ==
    IF userlist = <<>> THEN acc
    ELSE LET userpair == Head(userlist)
             acc1 == IF userpair.annotated
                     THEN [acc EXCEPT !.prefixes = userpair.prefixes]
                     ELSE acc
         IN IF ~InUsers(acc1.st, userpair.uid)
            THEN burst_loop(acc1, ch, Tail(userlist))
            ELSE burst_loop(burst_adduser(acc1, ch, userpair.uid), ch,
                            Tail(userlist))

\* handle_burst(source, 'BURST', args); clock is the wall clock read when the
\* channel has to be created.  The result is the store and the returned event.
handle_burst(st, b, clock) ==
    IF Len(BurstArgs(b)) < 3 THEN [st |-> st, event |-> [none |-> TRUE]]
    ELSE
    LET ch == toLower(b.chan)
        st0 == [st EXCEPT !.channels = Touch(@, ch, clock)]
        chandata == deepcopy(st0.channels[ch])
        parsedmodes == BurstParsedModes(b)
        acc == burst_loop([prefixes |-> {}, namelist |-> <<>>,
                           changedmodes |-> parsedmodes \cup b.bans,
                           st |-> st0], ch, BurstUserList(b))
        st1 == acc.st
    IN [st |-> [st1 EXCEPT !.channels[ch] =
                    updateTS(@, b.ts, acc.changedmodes)],
        event |-> [none |-> FALSE, channel |-> ch, users |-> acc.namelist,
                   modes |-> parsedmodes, ts |-> b.ts,
                   channeldata |-> chandata]]

----------------------------------------------------------------------------
(* P10Protocol.handle_join (also handle_create) and handle_part *)

\* /join 0: the user leaves every channel (lines 1091-1101).
RECURSIVE join0_loop(_, _, _)
join0_loop(st, source, oldchans) ==
    IF oldchans = {} THEN st
    ELSE LET channel == CHOOSE c \in oldchans : TRUE
         IN join0_loop([st EXCEPT
                            !.channels[channel].users = @ \ {source},
                            !.users[source].channels = @ \ {channel}],
                       source, oldchans \ {channel})

\* A TS update that stores the timestamp of the line without comparing.
join_setTS(c, ts) == IF ts # 0 THEN [c EXCEPT !.ts = ts] ELSE c

\* The TS update of a JOIN/CREATE: only when a timestamp was sent (line 1104).
join_updateTS(c, ts) == IF ts # 0 THEN updateTS(c, ts, {}) ELSE c

\* handle_join(source, command, args): target is args[0] ("0" or a channel
\* name), ts is args[1] or 0 when the line carries none.
handle_join(st, source, command, target, ts, clock) ==
    IF target = "0" /\ command = "JOIN"
    THEN join0_loop(st, source, st.users[source].channels)
    ELSE LET channel == toLower(target)
             st0 == [st EXCEPT !.channels = Touch(@, channel, clock)]
         IN [st0 EXCEPT
                !.channels[channel] =
                    [join_updateTS(@, ts) EXCEPT !.users = @ \cup {source}],
                !.users[source].channels = @ \cup {channel}]

\* The deletion test of P10Protocol.handle_part (p10.py line 1168).
part_delete(c) == c.users = {}

\* The deletion test of TS6BaseProtocol.handle_part (ts6_common.py line 371);
\* "z" stands for self.cmodes.get('permanent').
ts6_part_delete(c) == ~(c.users # {} \/ <<"z", None>> \in c.modes)

\* handle_part(source, command, [channel]) for one channel (p10.py lines
\* 1153-1169, ts6_common.py lines 359-372).
handle_part(st, source, channel_arg, clock, dialect) ==
    LET channel == toLower(channel_arg) IN
    LET st0 == [st EXCEPT !.channels = Touch(@, channel, clock)]
        st1 == [st0 EXCEPT !.channels[channel] = removeuser(@, source)]
        st2 == IF InUsers(st1, source)
               THEN [st1 EXCEPT !.users[source].channels = @ \ {channel}]
               ELSE st1
    IN IF (IF dialect = "p10" THEN part_delete(st2.channels[channel])
                             ELSE ts6_part_delete(st2.channels[channel]))
       THEN [st2 EXCEPT !.channels[channel] = NoChan]
       ELSE st2

----------------------------------------------------------------------------
(* Line building of P10Protocol.sjoin *)

\* A user of sjoin is [prefixes, uid], prefixes a sequence of prefix mode
\* characters.  A BURST line is [prefixlen, names]; a name is [uid, ann]: the
\* text "uid" when ann is empty and "uid:ann" otherwise.

\* p10.py:647 and p10.py:22: a P10 UID is a 2-character SID followed by 3
\* characters.
SIDLength == 2
P10UIDLength == 3
UIDLength == SIDLength + P10UIDLength

\* access_sort: the weights of the prefix modes of a user, summed.
access_weight(prefix) ==
    IF prefix = "o" THEN 100 ELSE IF prefix = "h" THEN 10
    ELSE IF prefix = "v" THEN 1 ELSE 0

RECURSIVE access_sort(_)
access_sort(prefixes) ==
    IF prefixes = <<>> THEN 0
    ELSE access_weight(Head(prefixes)) + access_sort(Tail(prefixes))

\* sorted(users, key=self.access_sort): a stable sort, ascending.
RECURSIVE sorted_insert(_, _)
sorted_insert(sortedusers, u) ==
    IF sortedusers = <<>> THEN <<u>>
    ELSE LET l == sortedusers[Len(sortedusers)]
         IN IF access_sort(l.prefixes) <= access_sort(u.prefixes)
            THEN Append(sortedusers, u)
            ELSE Append(sorted_insert(SubSeq(sortedusers, 1,
                                             Len(sortedusers) - 1), u), l)

RECURSIVE sorted_by_access(_)
sorted_by_access(userlist) ==
    IF userlist = <<>> THEN <<>>
    ELSE sorted_insert(sorted_by_access(SubSeq(userlist, 1, Len(userlist) - 1)),
                       userlist[Len(userlist)])

\* The namelist loop (lines 551-567): a user's prefixes are written out only
\* when they differ from those of the user before.
RECURSIVE sjoin_namelist(_, _)
sjoin_namelist(userlist, last_prefixes) ==
    IF userlist = <<>> THEN <<>>
    ELSE LET u == Head(userlist)
             name == IF u.prefixes # <<>> /\ u.prefixes # last_prefixes
                     THEN [uid |-> u.uid, ann |-> u.prefixes]
                     ELSE [uid |-> u.uid, ann |-> <<>>]
         IN <<name>> \o sjoin_namelist(Tail(userlist), u.prefixes)

NameLen(name) ==
    UIDLength + (IF name.ann = <<>> THEN 0 ELSE 1 + Len(name.ann))

RECURSIVE NamesLen(_)
NamesLen(names) ==
    IF names = <<>> THEN 0
    ELSE NameLen(Head(names)) + (IF Len(names) > 1 THEN 1 ELSE 0)
         + NamesLen(Tail(names))

LineLen(line) == line.prefixlen + NamesLen(line.names)

\* utils.wrapArguments(prefix, args, length, separator=','): the arguments
\* are put on lines of at most `length` characters, each line starting with
\* the prefix, an argument going on the current line when it still fits.
RECURSIVE wrapArguments(_, _, _, _)
wrapArguments(prefixlen, args, length, buf) ==
    IF args = <<>> THEN <<[prefixlen |-> prefixlen, names |-> buf]>>
    ELSE LET cand == [prefixlen |-> prefixlen, names |-> Append(buf, Head(args))]
         IN IF LineLen(cand) <= length
            THEN wrapArguments(prefixlen, Tail(args), length, cand.names)
            ELSE <<[prefixlen |-> prefixlen, names |-> buf]>>
                 \o wrapArguments(prefixlen, args, length, <<>>)

\* names_dict.get(first_uid, '') (lines 579, 598).
names_dict(userlist, uid) ==
    LET hits == {i \in 1..Len(userlist) : userlist[i].uid = uid}
    IN IF hits = {} THEN <<>>
       ELSE userlist[CHOOSE i \in hits : \A j \in hits : j <= i].prefixes

\* A wrap length that leaves no room for an annotation put back later.
sjoin_wraplength_full == S2S_BUFSIZE

\* The length handed to wrapArguments (line 584).
sjoin_wraplength == S2S_BUFSIZE - 1 - Cardinality(PrefixChars)

\* The prefixes put back on the first name of a continuation line (line 605):
\* `prefixes` is the variable of the loop over the users, which has ended.
sjoin_readded(userlist, first_prefix) == userlist[Len(userlist)].prefixes

\* The post-wrap fixing of one continuation line (lines 586-608).
sjoin_fix(line, userlist) ==
    LET first == line.names[1]
        first_prefix == IF first.ann = <<>> THEN names_dict(userlist, first.uid)
                        ELSE <<>>
    IN IF first.ann = <<>> /\ first_prefix # <<>>
       THEN [line EXCEPT !.names[1].ann = sjoin_readded(userlist, first_prefix)]
       ELSE line

\* The BURST lines sjoin sends for its users (lines 545-610).
sjoin_lines(prefixlen, users_in) ==
    LET userlist == sorted_by_access(users_in)
        namelist == sjoin_namelist(userlist, <<>>)
        wrapped == wrapArguments(prefixlen, namelist, sjoin_wraplength, <<>>)
    IN [i \in 1..Len(wrapped) |->
            IF i > 1 THEN sjoin_fix(wrapped[i], userlist) ELSE wrapped[i]]

----------------------------------------------------------------------------
(* Line building of P10Protocol.mode *)

\* p10.py:427: the batch of mode changes taken per round of the loop.
ModesPerLine == 12

\* A channel timestamp on the wire is a 10-digit decimal (p10.py:392).
TSDigits == 10

ArgLen(arg) == IF arg = None THEN 0 ELSE Len(arg)

\* Length of joinModes(modes): a sign wherever the sign changes (the string
\* always starts with one), one character per mode, then the arguments, each
\* after a space.
RECURSIVE SignChanges(_, _)
SignChanges(modes, prefix) ==
    IF modes = <<>> THEN 0
    ELSE (IF Head(modes)[1] # prefix THEN 1 ELSE 0)
         + SignChanges(Tail(modes), Head(modes)[1])

RECURSIVE ArgsLen(_)
ArgsLen(modes) ==
    IF modes = <<>> THEN 0
    ELSE (IF Head(modes)[3] = None THEN 0 ELSE 1 + ArgLen(Head(modes)[3]))
         + ArgsLen(Tail(modes))

joinModesLen(modes) ==
    (IF modes = <<>> \/ modes[1][1] = "+" THEN 1 ELSE 0)
    + SignChanges(modes, "+") + Len(modes) + ArgsLen(modes)

\* wrapModes(modes, limit): the mode changes are put on mode strings of at
\* most `limit` characters, in order, a change going on the current string
\* when it still fits.
RECURSIVE wrapModes(_, _, _)
wrapModes(modes, limit, queued) ==
    IF modes = <<>> THEN <<queued>>
    ELSE IF joinModesLen(Append(queued, Head(modes))) <= limit
    THEN wrapModes(Tail(modes), limit, Append(queued, Head(modes)))
    ELSE <<queued>> \o wrapModes(modes, limit, <<>>)

\* An M line: "<source> M <target> <modes> <ts>" for a channel,
\* "<source> M <target> <modes>" for a user (hasts = FALSE).
MLine(source, target, modes, hasts) ==
    [source |-> source, cmd |-> "M", target |-> target, modes |-> modes,
     hasts |-> hasts]

MLineLen(line) ==
    Len(line.source) + 1 + 1 + 1 + Len(line.target) + 1
    + joinModesLen(line.modes) + (IF line.hasts THEN 1 + TSDigits ELSE 0)

\* bufsize (line 417).
mode_bufsize(numeric, target) ==
    S2S_BUFSIZE - Len(numeric) - 4 - Len(target) - TSDigits

\* A slice that skips the mode change after the batch.
mode_rest_skip(modes) == SubSeq(modes, Min(12, Len(modes)) + 2, Len(modes))

\* modes[:12] and modes[12:] (lines 427-434).
mode_batch(modes) == SubSeq(modes, 1, Min(ModesPerLine, Len(modes)))
mode_rest(modes) == SubSeq(modes, Min(ModesPerLine, Len(modes)) + 1, Len(modes))

\* The while loop of mode() for a channel target (lines 427-434).
RECURSIVE mode_lines(_, _, _)
mode_lines(numeric, target, modes) ==
    IF mode_batch(modes) = <<>> THEN <<>>
    ELSE LET wrapped == wrapModes(mode_batch(modes),
                                  mode_bufsize(numeric, target), <<>>)
         IN [i \in 1..Len(wrapped) |-> MLine(numeric, target, wrapped[i], TRUE)]
            \o mode_lines(numeric, target, mode_rest(modes))

----------------------------------------------------------------------------
(* Statements of the outbound operations *)

\* An outbound operation is the sequence of its state-changing statements, in
\* program order.  Each statement is a record tagged by k; stmt_exec runs one.
\* A raise ends the operation: nothing follows it.

Raise(what) == [k |-> "raise", what |-> what]
Send(line) == [k |-> "send", line |-> line]

\* IrcUser(nick, ts, uid, server, ...)
IrcUser(nick, ts, server) ==
    [exists |-> TRUE, nick |-> nick, ts |-> ts, server |-> server,
     channels |-> {}, away |-> ""]

\* IrcServer(uplink, name, internal=...)
IrcServer(uplink, internal) ==
    [exists |-> TRUE, internal |-> internal, uplink |-> uplink, users |-> {}]

\* removeClient(numeric): the user leaves every channel, empty channels
\* without the permanent mode are deleted, the user leaves the user table and
\* its server's user set.
removeClient(st, uid) ==
    LET chs == [c \in ChanNames |->
                   IF ~st.channels[c].exists THEN NoChan
                   ELSE LET r == removeuser(st.channels[c], uid)
                        IN IF r.users = {} /\ <<"z", None>> \notin r.modes
                           THEN NoChan ELSE r]
        sid == st.users[uid].server
    IN [st EXCEPT !.channels = chs,
                  !.users[uid] = NoUser,
                  !.servers[sid].users = @ \ {uid}]

\* Is server sid the server `root` or behind it in the uplink tree?
RECURSIVE Behind(_, _, _, _)
Behind(st, sid, root, fuel) ==
    IF sid = root THEN TRUE
    ELSE IF fuel = 0 \/ sid \notin DOMAIN st.servers \/ ~st.servers[sid].exists THEN FALSE
    ELSE Behind(st, st.servers[sid].uplink, root, fuel - 1)

RECURSIVE removeClients(_, _)
removeClients(st, uids) ==
    IF uids = {} THEN st
    ELSE LET u == CHOOSE x \in uids : TRUE
         IN removeClients(removeClient(st, u), uids \ {u})

\* handle_squit(source, 'SQUIT', [target, text]): the target server, every
\* server behind it and all their users are removed.
handle_squit(st, target) ==
    LET gone == {s \in DOMAIN st.servers :
                    /\ st.servers[s].exists
                    /\ Behind(st, s, target, Cardinality(DOMAIN st.servers))}
        st1 == removeClients(st, {u \in UIDs : st.users[u].exists
                                               /\ st.users[u].server \in gone})
    IN [st1 EXCEPT !.servers = [s \in DOMAIN st.servers |->
                                  IF s \in gone THEN NoServer ELSE @[s]]]

stmt_exec(st, e, clock) ==
    CASE e.k = "raise" -> [st EXCEPT !.raised = TRUE]
      [] e.k = "send" -> send(st, e.line)
      [] e.k = "touch" -> [st EXCEPT !.channels = Touch(@, e.channel, clock)]
      [] e.k = "setnick" -> [st EXCEPT !.users[e.uid].nick = e.nick]
      [] e.k = "setts" -> [st EXCEPT !.users[e.uid].ts = e.ts]
      [] e.k = "setaway" -> [st EXCEPT !.users[e.uid].away = e.text]
      [] e.k = "addmember" ->
            [st EXCEPT !.channels = [Touch(@, e.channel, clock) EXCEPT
                                        ![e.channel].users = @ \cup {e.uid}]]
      [] e.k = "addmembers" ->
            [st EXCEPT !.channels = [Touch(@, e.channel, clock) EXCEPT
                                        ![e.channel].users = @ \cup e.uids]]
      [] e.k = "addchan" -> [st EXCEPT !.users[e.uid].channels = @ \cup {e.channel}]
      [] e.k = "handle_part" -> handle_part(st, e.uid, e.channel, clock, e.dialect)
      [] e.k = "removeClient" -> removeClient(st, e.uid)
      [] e.k = "settopic" ->
            [st EXCEPT !.channels = [Touch(@, e.channel, clock) EXCEPT
                                        ![e.channel].topic = e.text]]
      [] e.k = "settopicset" ->
            [st EXCEPT !.channels = [Touch(@, e.channel, clock) EXCEPT
                                        ![e.channel].topicset = TRUE]]
      [] e.k = "applyModes" ->
            [st EXCEPT !.channels = [Touch(@, e.channel, clock) EXCEPT
                                        ![e.channel] = applyModes(@, e.modes)]]
      [] e.k = "updateTS" ->
            [st EXCEPT !.channels = [Touch(@, e.channel, clock) EXCEPT
                                        ![e.channel] = updateTS(@, e.ts, e.modes)]]
      [] e.k = "newuser" -> [st EXCEPT !.users[e.uid] = IrcUser(e.nick, e.ts, e.server)]
      [] e.k = "serveradduser" -> [st EXCEPT !.servers[e.sid].users = @ \cup {e.uid}]
      [] e.k = "newserver" -> [st EXCEPT !.servers[e.sid] = IrcServer(e.uplink, TRUE)]
      [] e.k = "handle_squit" -> handle_squit(st, e.target)
      [] e.k = "removeserver" -> [st EXCEPT !.servers[e.sid] = NoServer]

RECURSIVE stmts_exec(_, _, _)
stmts_exec(st, stmts, clock) ==
    IF stmts = <<>> THEN st
    ELSE stmts_exec(stmt_exec(st, Head(stmts), clock), Tail(stmts), clock)

\* Does statement e change the state store?
IsStoreStmt(e) == e.k \notin {"raise", "send"}

----------------------------------------------------------------------------
(* The outbound operations of P10Protocol, as statement lists *)

isOp(c, uid) == uid \in c.prefixmodes["o"]

\* The state a statement list is computed in has had the channel touched
\* whenever the code reads self.channels[channel] before the statement.
Touched(st, ch, clock) == [st EXCEPT !.channels = Touch(@, ch, clock)]

\* The test of the actor most operations start with.
IsActor(st, numeric) == isInternalClient(st, numeric) \/ isInternalServer(st, numeric)

p10_away(st, source, text) ==
    IF ~isInternalClient(st, source) THEN <<Raise("LookupError")>>
    ELSE <<Send(Line(source, "A", <<text>>)),
           [k |-> "setaway", uid |-> source, text |-> text]>>

p10_invite(st, numeric, target, channel) ==
    IF ~isInternalClient(st, numeric) THEN <<Raise("LookupError")>>
    ELSE IF ~InUsers(st, target) THEN <<Raise("KeyError")>>
    ELSE <<[k |-> "touch", channel |-> channel],
           Send(Line(numeric, "I", <<st.users[target].nick, channel>>))>>

p10_join(st, client, channel_arg, clock) ==
    LET channel == toLower(channel_arg) IN
    <<[k |-> "touch", channel |-> channel]>> \o
    (IF ~isInternalClient(st, client) THEN <<Raise("LookupError")>>
     ELSE LET c == Touched(st, channel, clock).channels[channel]
          IN <<Send(Line(client, IF c.users = {} THEN "C" ELSE "J",
                         <<channel, c.ts>>)),
               [k |-> "addmember", channel |-> channel, uid |-> client],
               [k |-> "addchan", uid |-> client, channel |-> channel]>>)

\* The source a KICK or a channel MODE is sent from: the client's server when
\* the client is neither op nor halfop (lines 357-359, 412-413).
InServers(st, sid) == sid \in DOMAIN st.servers /\ st.servers[sid].exists

bounce_source(st, c, numeric) ==
    IF ~InServers(st, numeric) /\ ~isOp(c, numeric)
    THEN st.users[numeric].server ELSE numeric

p10_kick(st, numeric, channel_arg, target, clock) ==
    LET channel == toLower(channel_arg) IN
    IF ~IsActor(st, numeric) THEN <<Raise("LookupError")>>
    ELSE LET c == Touched(st, channel, clock).channels[channel]
         IN <<[k |-> "touch", channel |-> channel],
              Send(Line(bounce_source(st, c, numeric), "K", <<channel, target>>)),
              [k |-> "handle_part", uid |-> target, channel |-> channel,
               dialect |-> "p10"]>>

p10_kill(st, numeric, target) ==
    IF ~IsActor(st, numeric) THEN <<Raise("LookupError")>>
    ELSE <<Send(Line(numeric, "D", <<target>>))>> \o
         (IF InUsers(st, target)
          THEN <<[k |-> "removeClient", uid |-> target]>>
          ELSE <<Raise("KeyError")>>)

p10_message(st, numeric, target, text) ==
    IF ~isInternalClient(st, numeric) THEN <<Raise("LookupError")>>
    ELSE <<Send(Line(numeric, "P", <<target, text>>))>>

p10_notice(st, numeric, target, text) ==
    IF ~IsActor(st, numeric) THEN <<Raise("LookupError")>>
    ELSE <<Send(Line(numeric, "O", <<target, text>>))>>

\* mode() with a channel target.
p10_mode(st, numeric, target, modes, clock) ==
    IF ~IsActor(st, numeric) THEN <<Raise("LookupError")>>
    ELSE LET c == Touched(st, target, clock).channels[target]
             source == bounce_source(st, c, numeric)
             lines == mode_lines(source, target, modes)
         IN <<[k |-> "touch", channel |-> target],
              [k |-> "applyModes", channel |-> target, modes |-> modes]>>
            \o [i \in 1..Len(lines) |-> Send(lines[i])]

\* int(time.time()) is read twice: for the line (clock) and for the store
\* (clock2).
p10_nick(st, numeric, newnick, clock, clock2) ==
    IF ~isInternalClient(st, numeric) THEN <<Raise("LookupError")>>
    ELSE <<Send(Line(numeric, "N", <<newnick, clock>>)),
           [k |-> "setnick", uid |-> numeric, nick |-> newnick],
           [k |-> "setts", uid |-> numeric, ts |-> clock2]>>

p10_numeric(st, source, numeric, target, text) ==
    <<Send(Line(source, numeric, <<target, text>>))>>

p10_part(st, client, channel_arg) ==
    LET channel == toLower(channel_arg) IN
    IF ~isInternalClient(st, client) THEN <<Raise("LookupError")>>
    ELSE <<Send(Line(client, "L", <<channel>>)),
           [k |-> "handle_part", uid |-> client, channel |-> channel,
            dialect |-> "p10"]>>

p10_quit(st, numeric, reason) ==
    IF ~isInternalClient(st, numeric) THEN <<Raise("LookupError")>>
    ELSE <<Send(Line(numeric, "Q", <<reason>>)),
           [k |-> "removeClient", uid |-> numeric]>>

p10_squit_nocascade(st, source, target) ==
    IF ~InServers(st, target) THEN <<Raise("KeyError")>>
    ELSE <<Send(Line(source, "SQ", <<target>>)),
           [k |-> "removeserver", sid |-> target]>>

p10_squit(st, source, target) ==
    IF ~InServers(st, target) THEN <<Raise("KeyError")>>
    ELSE <<Send(Line(source, "SQ", <<target>>)),
           [k |-> "handle_squit", target |-> target]>>

p10_topic(st, numeric, target, text) ==
    IF ~isInternalClient(st, numeric) THEN <<Raise("LookupError")>>
    ELSE <<[k |-> "touch", channel |-> target],
           Send(Line(numeric, "T", <<target, text>>)),
           [k |-> "settopic", channel |-> target, text |-> text],
           [k |-> "settopicset", channel |-> target]>>

p10_topicBurst(st, numeric, target, text) ==
    IF ~isInternalServer(st, numeric) THEN <<Raise("LookupError")>>
    ELSE <<[k |-> "touch", channel |-> target],
           Send(Line(numeric, "T", <<target, text>>)),
           [k |-> "settopic", channel |-> target, text |-> text],
           [k |-> "settopicset", channel |-> target]>>

\* sjoin(server, channel, users, ts, modes): users_in is a sequence of
\* [prefixes, uid]; ts = 0 and modes = {} stand for the defaults.
sjoin_prefixmodes(userlist) ==
    UNION {{<<"+", userlist[n].prefixes[i], userlist[n].uid>> :
                i \in 1..Len(userlist[n].prefixes)} : n \in 1..Len(userlist)}

\* The statements of the loop over the users (line 572), up to the first user
\* that is not in the user table.
RECURSIVE sjoin_addchans(_, _, _)
sjoin_addchans(st, userlist, channel) ==
    IF userlist = <<>> THEN <<>>
    ELSE IF ~InUsers(st, Head(userlist).uid) THEN <<Raise("KeyError")>>
    ELSE <<[k |-> "addchan", uid |-> Head(userlist).uid, channel |-> channel]>>
         \o sjoin_addchans(st, Tail(userlist), channel)

sjoin_msgprefixlen(server, channel, regularmodes) ==
    Len(server) + 3 + Len(channel) + 1 + TSDigits + 1
    + (IF regularmodes # {} THEN joinModesLen(SetToSeq(regularmodes)) + 1 ELSE 0)

\* The timestamp sjoin hands to updateTS (lines 519-520).
sjoin_ts(c, ts) == IF ts # 0 THEN ts ELSE c.ts

p10_sjoin(st, server, channel_arg, users_in, ts, modes_in, clock) ==
    LET channel == toLower(channel_arg) IN
    IF users_in = <<>> THEN <<Raise("AssertionError")>>
    ELSE
    LET c == Touched(st, channel, clock).channels[channel]
        modes == IF modes_in # {} THEN modes_in
                 ELSE {<<"+", m[1], m[2]>> : m \in c.modes}
        ts1 == sjoin_ts(c, ts)
        bans == {m \in modes : m[2] = "b" /\ <<m[2], m[3]>> \notin c.modes}
        exempts == {m \in modes : m[2] = "e" /\ <<m[2], m[3]>> \notin c.modes}
        regularmodes == {m \in modes : m[2] \notin ListChars}
        userlist == sorted_by_access(users_in)
        changedmodes == modes \cup sjoin_prefixmodes(userlist)
        addchans == sjoin_addchans(st, userlist, channel)
        lines == sjoin_lines(sjoin_msgprefixlen(server, channel, regularmodes),
                             users_in)
    IN <<[k |-> "touch", channel |-> channel]>> \o addchans \o
       (IF addchans # <<>> /\ addchans[Len(addchans)].k = "raise" THEN <<>>
        ELSE [i \in 1..Len(lines) |->
                 Send([source |-> server, cmd |-> "B", channel |-> channel,
                       ts |-> ts1, modes |-> regularmodes,
                       names |-> lines[i].names])]
             \o <<[k |-> "addmembers", channel |-> channel,
                   uids |-> {userlist[i].uid : i \in 1..Len(userlist)}]>>
             \o (IF bans # {} THEN <<Send([source |-> server, cmd |-> "B",
                                           channel |-> channel, ts |-> ts1,
                                           modes |-> regularmodes,
                                           bans |-> bans])>> ELSE <<>>)
             \o (IF exempts # {}
                 THEN <<Send([source |-> server, cmd |-> "B",
                              channel |-> channel, ts |-> ts1,
                              modes |-> regularmodes,
                              exempts |-> exempts])>> ELSE <<>>)
             \o <<[k |-> "updateTS", channel |-> channel, ts |-> ts1,
                   modes |-> changedmodes]>>)

\* spawnClient(nick, server=..., ts=...): uid is what the UID generator of the
\* server returns; the user has no modes.
p10_spawnClient(st, nick, server, uid, ts) ==
    IF ~isInternalServer(st, server) THEN <<Raise("ValueError")>>
    ELSE <<[k |-> "newuser", uid |-> uid, nick |-> nick, ts |-> ts,
            server |-> server],
           [k |-> "serveradduser", sid |-> server, uid |-> uid],
           Send(Line(server, "N", <<nick, ts, uid>>))>>

\* spawnServer(name, sid=..., uplink=...); the name is a valid server name no
\* server has.
p10_spawnServer(st, name, sid, uplink) ==
    IF InServers(st, sid) THEN <<Raise("ValueError")>>
    ELSE IF ~isInternalServer(st, uplink) THEN <<Raise("ValueError")>>
    ELSE <<Send(Line(uplink, "SERVER", <<name, sid>>)),
           [k |-> "newserver", sid |-> sid, uplink |-> uplink]>>

----------------------------------------------------------------------------
(* The outbound operations of TS6BaseProtocol (ts6_common.py) *)

ts6_numeric(st, source, numeric, target, text) ==
    <<Send(Line(source, numeric, <<target, text>>))>>

ts6_kick(st, numeric, channel_arg, target) ==
    LET channel == toLower(channel_arg) IN
    IF ~IsActor(st, numeric) THEN <<Raise("LookupError")>>
    ELSE <<Send(Line(numeric, "KICK", <<channel, target>>)),
           [k |-> "handle_part", uid |-> target, channel |-> channel,
            dialect |-> "ts6"]>>

ts6_kill(st, numeric, target) ==
    IF ~IsActor(st, numeric) THEN <<Raise("LookupError")>>
    ELSE IF ~InUsers(st, target) THEN <<Raise("AssertionError")>>
    ELSE <<Send(Line(numeric, "KILL", <<target>>)),
           [k |-> "removeClient", uid |-> target]>>

ts6_nick(st, numeric, newnick, clock, clock2) ==
    IF ~isInternalClient(st, numeric) THEN <<Raise("LookupError")>>
    ELSE <<Send(Line(numeric, "NICK", <<newnick, clock>>)),
           [k |-> "setnick", uid |-> numeric, nick |-> newnick],
           [k |-> "setts", uid |-> numeric, ts |-> clock2]>>

ts6_part(st, client, channel_arg) ==
    LET channel == toLower(channel_arg) IN
    IF ~isInternalClient(st, client) THEN <<Raise("LookupError")>>
    ELSE <<Send(Line(client, "PART", <<channel>>)),
           [k |-> "handle_part", uid |-> client, channel |-> channel,
            dialect |-> "ts6"]>>

ts6_quit(st, numeric, reason) ==
    IF ~isInternalClient(st, numeric) THEN <<Raise("LookupError")>>
    ELSE <<Send(Line(numeric, "QUIT", <<reason>>)),
           [k |-> "removeClient", uid |-> numeric]>>

ts6_message(st, numeric, target, text) ==
    IF ~isInternalClient(st, numeric) THEN <<Raise("LookupError")>>
    ELSE <<Send(Line(numeric, "PRIVMSG", <<target, text>>))>>

ts6_notice(st, numeric, target, text) ==
    IF ~IsActor(st, numeric) THEN <<Raise("LookupError")>>
    ELSE <<Send(Line(numeric, "NOTICE", <<target, text>>))>>

ts6_topic(st, numeric, target, text) ==
    IF ~isInternalClient(st, numeric) THEN <<Raise("LookupError")>>
    ELSE <<Send(Line(numeric, "TOPIC", <<target, text>>)),
           [k |-> "settopic", channel |-> target, text |-> text],
           [k |-> "settopicset", channel |-> target]>>

ts6_squit(st, source, target) ==
    <<Send(Line(source, "SQUIT", <<target>>)),
      [k |-> "handle_squit", target |-> target]>>

ts6_away(st, source, text) ==
    <<Send(Line(source, "AWAY", <<text>>))>> \o
    (IF InUsers(st, source)
     THEN <<[k |-> "setaway", uid |-> source, text |-> text]>>
     ELSE <<Raise("KeyError")>>)

ts6_spawnServer(st, name, sid, uplink) ==
    IF InServers(st, sid) THEN <<Raise("ValueError")>>
    ELSE IF ~isInternalServer(st, uplink) THEN <<Raise("ValueError")>>
    ELSE <<Send(Line(uplink, "SID", <<name, sid>>)),
           [k |-> "newserver", sid |-> sid, uplink |-> uplink]>>

----------------------------------------------------------------------------
(* The channel state machine: incoming BURST, JOIN, CREATE and PART, and the
   outbound sjoin and part. *)

Plus(char, arg) == <<"+", char, arg>>

InitServers ==
    [s \in SIDs |-> IF s = OwnSID THEN IrcServer(None, TRUE)
                    ELSE IF s = UplinkSID THEN IrcServer(OwnSID, FALSE)
                    ELSE NoServer]

InitUsers ==
    [u \in UIDs |-> IF u = U1 THEN [IrcUser("pylink", 1, OwnSID) EXCEPT !.exists = TRUE]
                    ELSE IF u = R1 THEN IrcUser("gl", 1, UplinkSID)
                    ELSE NoUser]

InitServersWithUsers ==
    [s \in SIDs |-> [InitServers[s] EXCEPT
                        !.users = {u \in UIDs : InitUsers[u].exists
                                                /\ InitUsers[u].server = s}]]

Idle == [op |-> "idle", rest |-> <<>>, clock |-> 0]
NoFn == [kind |-> "none"]
NoGen == [kind |-> "none"]
NoLast == [op |-> "none", chan |-> None, ts |-> 0, prev_ts |-> 0, bare |-> FALSE,
           internal |-> FALSE, raised |-> FALSE, arg |-> None, event |-> None,
           prev |-> None]

Init ==
    /\ networkobjects = NoNetworks
    /\ relay = NoRelay
    /\ servers = InitServersWithUsers
    /\ users = InitUsers
    /\ channels = [c \in ChanNames |-> NoChan]
    /\ sent = <<>>
    /\ last = NoLast
    /\ pc = Idle
    /\ fn = NoFn
    /\ protocol = "p10"
    /\ self_uplink = UplinkSID
    /\ sidgen = NoGen

TSRange == 1..MaxTS

\* The wall clock, read when a channel has to be created: no timestamp on the
\* network is later than now.
Clocks(ch) == {MaxTS}

PrevTS(ch) == IF channels[ch].exists THEN channels[ch].ts ELSE 0

\* The BURST lines of the model.
\* A user list has at most two entries, of different users, a known user
\* last; an entry is bare or carries the annotation ":o".
BurstUIDs == {U1, R1, GhostUID}

BurstEntries ==
    {[uid |-> u, annotated |-> FALSE, prefixes |-> {}] : u \in BurstUIDs}
    \cup {[uid |-> u, annotated |-> TRUE, prefixes |-> {"o"}] : u \in BurstUIDs}

BurstUserLists ==
    {<<>>} \cup {<<a>> : a \in BurstEntries}
    \cup {p \in BurstEntries \X BurstEntries :
                p[2].uid \in {U1, R1} /\ p[2].uid # p[1].uid}

BurstInputs ==
    [chan : {ChanA}, ts : TSRange,
     modes : {{}, {Plus("n", None)}},
     userlist : BurstUserLists,
     bans : {{}, {Plus("b", "*!*@bad")}}]

HandleBurst ==
    \E b \in BurstInputs : \E clock \in Clocks(b.chan) :
        /\ Commit(handle_burst(Store, b, clock).st)
        /\ last' = [NoLast EXCEPT !.op = "BURST", !.chan = b.chan, !.ts = b.ts,
                    !.prev_ts = PrevTS(b.chan), !.bare = Len(BurstArgs(b)) < 3]
        /\ UNCHANGED <<pc, fn, protocol, self_uplink, sidgen, networkobjects, relay>>

\* JOIN and CREATE come from users of the uplink.
HandleJoin ==
    \E source \in {R1}, command \in {"JOIN", "CREATE"},
       target \in {ChanA, "0"}, ts \in 0..MaxTS :
      \E clock \in (IF target = "0" THEN {MaxTS} ELSE Clocks(target)) :
        /\ target = "0" => command = "JOIN"
        /\ Commit(handle_join(Store, source, command, target, ts, clock))
        /\ last' = [NoLast EXCEPT !.op = command, !.chan = target, !.ts = ts,
                    !.prev_ts = IF target = "0" THEN 0 ELSE PrevTS(target), !.bare = FALSE]
        /\ UNCHANGED <<pc, fn, protocol, self_uplink, sidgen, networkobjects, relay>>

HandlePart ==
    \E source \in {R1}, channel \in {ChanA} :
        /\ Commit(handle_part(Store, source, channel, MaxTS, "p10"))
        /\ last' = [NoLast EXCEPT !.op = "PART", !.chan = channel, !.ts = 0,
                    !.prev_ts = PrevTS(channel), !.bare = FALSE]
        /\ UNCHANGED <<pc, fn, protocol, self_uplink, sidgen, networkobjects, relay>>

SjoinUsers ==
    {<<[prefixes |-> p, uid |-> U1]>> : p \in {<<>>, <<"o">>}}
    \cup {<<[prefixes |-> <<>>, uid |-> R1], [prefixes |-> <<"o">>, uid |-> U1]>>}

SjoinModes == {{}, {Plus("m", None)}, {Plus("m", None), Plus("b", "*!*@bad")}}

Sjoin ==
    \E users_in \in SjoinUsers, ts \in 0..MaxTS, modes \in SjoinModes :
      \E clock \in Clocks(ChanA) :
        /\ Commit(stmts_exec(Store, p10_sjoin(Store, OwnSID, ChanA, users_in,
                                              ts, modes, clock), clock))
        /\ last' = [NoLast EXCEPT !.op = "SJOIN", !.chan = ChanA,
                    !.ts = sjoin_ts(Touched(Store, ChanA, clock).channels[ChanA], ts),
                    !.prev_ts = PrevTS(ChanA), !.bare = FALSE]
        /\ UNCHANGED <<pc, fn, protocol, self_uplink, sidgen, networkobjects, relay>>

Part ==
    \E client \in {U1} :
        /\ Commit(stmts_exec(Store, p10_part(Store, client, ChanA), MaxTS))
        /\ last' = [NoLast EXCEPT !.op = "part", !.chan = ChanA, !.ts = 0,
                    !.prev_ts = PrevTS(ChanA), !.bare = FALSE]
        /\ UNCHANGED <<pc, fn, protocol, self_uplink, sidgen, networkobjects, relay>>

Next == HandleBurst \/ HandleJoin \/ HandlePart \/ Sjoin \/ Part

Spec == Init /\ [][Next]_vars

----------------------------------------------------------------------------
(* Claims about handle_burst and the channel timestamp *)

\* What a BURST line carries, read off the line itself.
\* The prefix modes in force for the i-th entry of a user list: those of the
\* nearest annotated entry at or before i.
CarriedPrefixes(userlist, i) ==
    LET anns == {j \in 1..i : userlist[j].annotated}
    IN IF anns = {} THEN {}
       ELSE userlist[CHOOSE j \in anns : \A k \in anns : k <= j].prefixes

\* The users of the table that the line lists.
BurstKnownUsers(b) ==
    {b.userlist[i].uid : i \in {j \in 1..Len(b.userlist) : users[b.userlist[j].uid].exists}}

\* The holders of prefix mode p according to the line.
BurstHolders(b, p) ==
    {b.userlist[i].uid : i \in {j \in 1..Len(b.userlist) :
                                  /\ users[b.userlist[j].uid].exists
                                  /\ p \in CarriedPrefixes(b.userlist, j)}}

\* The modes and bans the line carries, as channel modes.
BurstModes(b) == {<<m[2], m[3]>> : m \in b.modes \cup b.bans}

BurstResult(b) == handle_burst(Store, b, MaxTS).st.channels[b.chan]

\* C1 (as claimed): a BURST with a strictly lower TS for an existing channel
\* leaves the channel with the incoming TS and with exactly the modes, bans
\* and prefix modes the BURST carries.
C1_LowerTSBurstReplacesModes ==
    \A b \in BurstInputs :
        (channels[b.chan].exists /\ b.ts < channels[b.chan].ts) =>
            /\ BurstResult(b).ts = b.ts
            /\ BurstResult(b).modes = BurstModes(b)
            /\ \A p \in PrefixChars : BurstResult(b).prefixmodes[p] = BurstHolders(b, p)

\* C2: a BURST with a strictly higher TS for an existing channel adds the
\* known users it lists as members and leaves the channel's TS, modes, bans
\* and prefix modes as they were.
C2_HigherTSBurstKeepsModes ==
    \A b \in BurstInputs :
        (channels[b.chan].exists /\ b.ts > channels[b.chan].ts) =>
            /\ BurstResult(b).users = channels[b.chan].users \cup BurstKnownUsers(b)
            /\ BurstResult(b).ts = channels[b.chan].ts
            /\ BurstResult(b).modes = channels[b.chan].modes
            /\ BurstResult(b).prefixmodes = channels[b.chan].prefixmodes

C2_Witness ==
    /\ last.op = "BURST" /\ last.prev_ts # 0 /\ last.ts > last.prev_ts
    /\ channels[ChanA].ts = last.prev_ts
    /\ R1 \in channels[ChanA].users
    /\ channels[ChanA].modes = {<<"m", None>>}
    /\ channels[ChanA].prefixmodes["o"] = {U1}

TSOps == {"BURST", "JOIN", "CREATE", "SJOIN"}

\* C3 (as claimed): after every BURST, JOIN, CREATE and sjoin on a channel
\* that existed before, the channel's TS is the minimum of its previous TS and
\* the timestamp the operation carried.
C3_TSIsMinimum ==
    (last.op \in TSOps /\ last.prev_ts # 0 /\ last.ts # 0) =>
        channels[last.chan].ts = Min(last.prev_ts, last.ts)

\* C3 (amended): the TS of an existing channel never increases, and after
\* every JOIN, CREATE and sjoin, and every BURST that carries modes, users or
\* bans, it is the minimum of the previous TS and the timestamp carried; a
\* BURST of fewer than three arguments leaves it unchanged.
C3_TSNeverIncreases ==
    (last.op \in TSOps /\ last.prev_ts # 0 /\ last.ts # 0) =>
        channels[last.chan].ts =
            (IF last.op = "BURST" /\ last.bare THEN last.prev_ts
             ELSE Min(last.prev_ts, last.ts))

C3_Witness ==
    /\ last.op = "JOIN" /\ last.prev_ts = MaxTS /\ last.ts = 1
    /\ channels[ChanA].ts = 1

\* C4: a BURST applied a second time leaves the store as the first
\* application left it.
C4_BurstIdempotent ==
    \A b \in BurstInputs : \A clock \in Clocks(b.chan) :
        LET once == handle_burst(Store, b, clock).st
        IN handle_burst(once, b, clock).st = once

C4_Witness ==
    /\ last.op = "BURST" /\ last.prev_ts # 0 /\ last.ts = last.prev_ts
    /\ channels[ChanA].users = {U1, R1}
    /\ channels[ChanA].prefixmodes["o"] = {R1}
    /\ <<"n", None>> \in channels[ChanA].modes

----------------------------------------------------------------------------
(* The outbound operations of both dialects, each call run to its end *)

Dialects == {"p10", "ts6"}

\* What a caller may hand over as the actor of an operation: our client, a
\* client of the uplink, a numeric nobody has, our server, the uplink.
Actors == {U1, R1, GhostUID, OwnSID, UplinkSID}

\* The link is of one protocol class from the start.
InitOut ==
    /\ networkobjects = NoNetworks
    /\ relay = NoRelay
    /\ servers = InitServersWithUsers
    /\ users = InitUsers
    /\ channels = [c \in ChanNames |-> NoChan]
    /\ sent = <<>>
    /\ last = NoLast
    /\ pc = Idle
    /\ fn = NoFn
    /\ protocol \in Dialects
    /\ self_uplink = UplinkSID
    /\ sidgen = NoGen

Targets == {U1, R1}

RaisedIn(stmts) == \E i \in 1..Len(stmts) : stmts[i].k = "raise"

\* One call: the statements of the operation run in program order.
Call(op, actor, stmts) ==
    /\ Commit(stmts_exec(Store, stmts, MaxTS))
    /\ last' = [NoLast EXCEPT !.op = op,
                              !.internal = IsActor(Store, actor),
                              !.raised = RaisedIn(stmts)]
    /\ UNCHANGED <<pc, fn, protocol, self_uplink, sidgen, networkobjects, relay>>

OutAway ==
    \E source \in Actors :
        Call("away", source,
             IF protocol = "p10" THEN p10_away(Store, source, "gone")
             ELSE ts6_away(Store, source, "gone"))

OutInvite ==
    \E numeric \in Actors :
        /\ protocol = "p10"
        /\ Call("invite", numeric, p10_invite(Store, numeric, R1, ChanA))

OutJoin ==
    \E client \in Actors :
        /\ protocol = "p10"
        /\ Call("join", client, p10_join(Store, client, ChanA, MaxTS))

OutKick ==
    \E numeric \in Actors, target \in Targets :
        Call("kick", numeric,
             IF protocol = "p10" THEN p10_kick(Store, numeric, ChanA, target, MaxTS)
             ELSE ts6_kick(Store, numeric, ChanA, target))

OutKill ==
    \E numeric \in Actors, target \in {R1} :
        Call("kill", numeric,
             IF protocol = "p10" THEN p10_kill(Store, numeric, target)
             ELSE ts6_kill(Store, numeric, target))

OutMessage ==
    \E numeric \in Actors :
        Call("message", numeric,
             IF protocol = "p10" THEN p10_message(Store, numeric, ChanA, "hi")
             ELSE ts6_message(Store, numeric, ChanA, "hi"))

OutMode ==
    \E numeric \in Actors :
        /\ protocol = "p10"
        /\ Call("mode", numeric,
                p10_mode(Store, numeric, ChanA, <<Plus("m", None)>>, MaxTS))

OutNick ==
    \E numeric \in Actors :
        Call("nick", numeric,
             IF protocol = "p10" THEN p10_nick(Store, numeric, "newnick", MaxTS, MaxTS)
             ELSE ts6_nick(Store, numeric, "newnick", MaxTS, MaxTS))

OutNotice ==
    \E numeric \in Actors :
        Call("notice", numeric,
             IF protocol = "p10" THEN p10_notice(Store, numeric, ChanA, "hi")
             ELSE ts6_notice(Store, numeric, ChanA, "hi"))

OutNumeric ==
    \E source \in Actors :
        Call("numeric", source,
             IF protocol = "p10" THEN p10_numeric(Store, source, "311", R1, "whois")
             ELSE ts6_numeric(Store, source, "311", R1, "whois"))

OutPart ==
    \E client \in Actors :
        Call("part", client,
             IF protocol = "p10" THEN p10_part(Store, client, ChanA)
             ELSE ts6_part(Store, client, ChanA))

OutQuit ==
    \E numeric \in Actors :
        Call("quit", numeric,
             IF protocol = "p10" THEN p10_quit(Store, numeric, "bye")
             ELSE ts6_quit(Store, numeric, "bye"))

OutTopic ==
    \E numeric \in Actors :
        Call("topic", numeric,
             IF protocol = "p10" THEN p10_topic(Store, numeric, ChanA, "news")
             ELSE ts6_topic(Store, numeric, ChanA, "news"))

OutTopicBurst ==
    \E numeric \in Actors :
        /\ protocol = "p10"
        /\ Call("topicBurst", numeric,
                p10_topicBurst(Store, numeric, ChanA, "news"))

OutSquit ==
    \E source \in Actors, target \in {UplinkSID, NewSID} :
        Call("squit", source,
             IF protocol = "p10" THEN p10_squit(Store, source, target)
             ELSE ts6_squit(Store, source, target))

\* sjoin takes a server as its actor; the users are in the user table.
OutSjoin ==
    \E server \in {OwnSID, UplinkSID}, users_in \in SjoinUsers :
        /\ \A i \in 1..Len(users_in) : users[users_in[i].uid].exists
        /\ protocol = "p10"
        /\ Call("sjoin", server,
                p10_sjoin(Store, server, ChanA, users_in, 0, {}, MaxTS))

NextOut ==
    \/ OutAway \/ OutInvite \/ OutJoin \/ OutKick \/ OutKill \/ OutMessage
    \/ OutMode \/ OutNick \/ OutNotice \/ OutNumeric \/ OutPart \/ OutQuit
    \/ OutTopic \/ OutTopicBurst \/ OutSquit \/ OutSjoin

SpecOut == InitOut /\ [][NextOut]_vars

OutOps == {"away", "invite", "join", "kick", "kill", "message", "mode", "nick",
           "notice", "numeric", "part", "quit", "topic", "topicBurst", "squit",
           "sjoin"}

\* C5: an outbound operation of either dialect that is called with an actor
\* that is neither a live internal client nor a live internal server raises
\* an error and sends no line.
C5_ForeignActorRaisesAndSendsNothing ==
    (last.op \in OutOps /\ ~last.internal) => (last.raised /\ sent = <<>>)

----------------------------------------------------------------------------
(* The BURST lines of sjoin, as a function of the message prefix and the
   users *)

\* The users of a study are numbered; the i-th has the i-th UID.
SjoinUIDs == <<"AAAAA", "AAAAB", "AAAAC", "AAAAD", "AAAAE", "AAAAF">>

MaxSjoinUsers == 4

SjoinPrefixes == {<<>>, <<"v">>, <<"o">>, <<"o", "v">>}

\* All user lists of a length, the i-th user having the i-th UID.
SjoinUserLists(n) ==
    {[i \in 1..n |-> [prefixes |-> ps[i], uid |-> SjoinUIDs[i]]] :
        ps \in [1..n -> SjoinPrefixes]}

\* Lengths of the message prefix "<sid> B <channel> <ts> [<modes> ]" that
\* leave room for one to three names on a line.
SjoinPrefixLens == {S2S_BUFSIZE - n : n \in {11, 14, 17, 20}}

SjoinCases ==
    {[kind |-> "sjoin", prefixlen |-> l, userlist |-> us, lines |-> <<>>,
      done |-> FALSE] :
        l \in SjoinPrefixLens,
        us \in UNION {SjoinUserLists(n) : n \in 1..MaxSjoinUsers}}

InitSjoin ==
    /\ networkobjects = NoNetworks
    /\ relay = NoRelay
    /\ servers = InitServersWithUsers
    /\ users = InitUsers
    /\ channels = [c \in ChanNames |-> NoChan]
    /\ sent = <<>>
    /\ last = NoLast
    /\ pc = Idle
    /\ protocol = "p10"
    /\ self_uplink = UplinkSID
    /\ sidgen = NoGen
    /\ fn \in SjoinCases

SjoinLines ==
    /\ fn.kind = "sjoin" /\ ~fn.done
    /\ fn' = [fn EXCEPT !.lines = sjoin_lines(fn.prefixlen, fn.userlist),
                        !.done = TRUE]
    /\ UNCHANGED <<servers, users, channels, sent, last, pc, protocol, self_uplink, sidgen, networkobjects, relay>>

NextSjoin == SjoinLines

SpecSjoin == InitSjoin /\ [][NextSjoin]_vars

RECURSIVE LinesNames(_)
LinesNames(lines) ==
    IF lines = <<>> THEN <<>>
    ELSE Head(lines).names \o LinesNames(Tail(lines))

\* The prefixes handed to sjoin for a UID.
GivenPrefixes(userlist, uid) ==
    userlist[CHOOSE i \in 1..Len(userlist) : userlist[i].uid = uid].prefixes

AsSet(seq) == {seq[i] : i \in 1..Len(seq)}

\* C6: every BURST line of sjoin is at most 510 bytes long after the post-wrap
\* fixing, and the names of all lines read in order are the users handed in,
\* each once, in ascending order of access.
C6_SjoinLinesFitAndKeepUsers ==
    (fn.kind = "sjoin" /\ fn.done) =>
        LET names == LinesNames(fn.lines)
        IN /\ \A i \in 1..Len(fn.lines) : LineLen(fn.lines[i]) <= S2S_BUFSIZE
           /\ Len(names) = Len(fn.userlist)
           /\ {names[i].uid : i \in 1..Len(names)}
                 = {fn.userlist[i].uid : i \in 1..Len(fn.userlist)}
           /\ \A i, j \in 1..Len(names) :
                 i < j => access_sort(GivenPrefixes(fn.userlist, names[i].uid))
                            <= access_sort(GivenPrefixes(fn.userlist, names[j].uid))

\* A continuation line that had its annotation put back and is exactly 510
\* bytes long.
C6_Witness ==
    /\ fn.kind = "sjoin" /\ fn.done
    /\ Len(fn.lines) >= 2
    /\ \E i \in 2..Len(fn.lines) :
          /\ LineLen(fn.lines[i]) = S2S_BUFSIZE
          /\ fn.lines[i].names[1].ann # <<>>
          /\ Len(fn.lines[i].names) = 2

\* The prefixes a receiver has in force at the j-th name of a line: those of
\* the nearest annotated name of the line at or before j.
LineCarried(names, j) ==
    LET anns == {k \in 1..j : names[k].ann # <<>>}
    IN IF anns = {} THEN <<>>
       ELSE names[CHOOSE k \in anns : \A m \in anns : m <= k].ann

\* C7: a receiver that applies the carry-forward rule line by line derives for
\* every user the prefix modes that were handed to sjoin for it.
C7_ReceiverDerivesGivenPrefixes ==
    (fn.kind = "sjoin" /\ fn.done) =>
        \A i \in 1..Len(fn.lines) : \A j \in 1..Len(fn.lines[i].names) :
            AsSet(LineCarried(fn.lines[i].names, j))
              = AsSet(GivenPrefixes(fn.userlist, fn.lines[i].names[j].uid))

----------------------------------------------------------------------------
(* The M lines of mode() for a channel target, as a function of the source,
   the target and the mode changes *)

\* A mode argument of n characters.
RECURSIVE Pad(_)
Pad(n) ==
    IF n >= 20 THEN "xxxxxxxxxxxxxxxxxxxx" \o Pad(n - 20)
    ELSE IF n > 0 THEN "x" \o Pad(n - 1)
    ELSE ""

\* The mode characters of a study, in the order they are used.
ModeChars == <<"a", "b", "c", "d", "e", "f", "g", "h", "i", "j", "k", "l", "m">>

MaxModes == 25

\* The lengths of the argument every mode change of a study carries; 0 is
\* no argument.
ModeArgLens == {0, 1, 59, 120}

\* The i-th mode change of a study of n changes: the signs are all "+"
\* (flip = 0) or change every flip-th change.
StudyMode(i, arglen, flip) ==
    <<IF flip # 0 /\ (i \div flip) % 2 = 1 THEN "-" ELSE "+",
      ModeChars[((i - 1) % Len(ModeChars)) + 1],
      IF arglen = 0 THEN None ELSE Pad(arglen)>>

ModeCases ==
    {[kind |-> "mode", numeric |-> src, target |-> ChanA,
      modes |-> [i \in 1..n |-> StudyMode(i, arglen, flip)],
      lines |-> <<>>, done |-> FALSE] :
        src \in {U1, OwnSID}, n \in 0..MaxModes, arglen \in ModeArgLens,
        flip \in {0, 1, 5}}

InitMode ==
    /\ networkobjects = NoNetworks
    /\ relay = NoRelay
    /\ servers = InitServersWithUsers
    /\ users = InitUsers
    /\ channels = [c \in ChanNames |-> NoChan]
    /\ sent = <<>>
    /\ last = NoLast
    /\ pc = Idle
    /\ protocol = "p10"
    /\ self_uplink = UplinkSID
    /\ sidgen = NoGen
    /\ fn \in ModeCases

ModeLines ==
    /\ fn.kind = "mode" /\ ~fn.done
    /\ fn' = [fn EXCEPT !.lines = mode_lines(fn.numeric, fn.target, fn.modes),
                        !.done = TRUE]
    /\ UNCHANGED <<servers, users, channels, sent, last, pc, protocol, self_uplink, sidgen, networkobjects, relay>>

NextMode == ModeLines

SpecMode == InitMode /\ [][NextMode]_vars

RECURSIVE LinesModes(_)
LinesModes(lines) ==
    IF lines = <<>> THEN <<>>
    ELSE Head(lines).modes \o LinesModes(Tail(lines))

\* C8: no M line of mode() carries more than 12 mode changes, and the mode
\* changes of all lines read in order are the mode list handed in.
C8_ModeBatchesOfTwelveInOrder ==
    (fn.kind = "mode" /\ fn.done) =>
        /\ \A i \in 1..Len(fn.lines) : Len(fn.lines[i].modes) <= 12
        /\ LinesModes(fn.lines) = fn.modes

\* More than two batches, the first of them full and on one line.
C8_Witness ==
    /\ fn.kind = "mode" /\ fn.done
    /\ Len(fn.modes) > 24
    /\ Len(fn.lines) = 3
    /\ Len(fn.lines[1].modes) = 12
    /\ Len(fn.lines[3].modes) = Len(fn.modes) - 24

\* C9: every M line of mode() for a channel target is at most 510 bytes long.
C9_ModeLinesFit ==
    (fn.kind = "mode" /\ fn.done) =>
        \A i \in 1..Len(fn.lines) : MLineLen(fn.lines[i]) <= S2S_BUFSIZE

----------------------------------------------------------------------------
(* The outbound operations that change the store and send a line, run
   statement by statement *)

\* Entry of an operation: its checks have been made, its statements are to
\* run; the lines written are those of this call.
Begin(op, stmts) ==
    /\ pc.op = "idle"
    /\ pc' = [op |-> op, rest |-> stmts, clock |-> MaxTS]
    /\ sent' = <<>>
    /\ UNCHANGED <<servers, users, channels, last, fn, protocol, self_uplink, sidgen, networkobjects, relay>>

\* The next statement of the running operation.
Step ==
    /\ pc.op # "idle"
    /\ pc.rest # <<>>
    /\ Commit(stmt_exec([Store EXCEPT !.sent = sent], Head(pc.rest), pc.clock))
    /\ pc' = [pc EXCEPT !.rest = Tail(@)]
    /\ UNCHANGED <<last, fn, protocol, self_uplink, sidgen, networkobjects, relay>>

\* The operation returns (or its exception leaves it).
Return ==
    /\ pc.op # "idle"
    /\ pc.rest = <<>>
    /\ pc' = Idle
    /\ UNCHANGED <<servers, users, channels, sent, last, fn, protocol, self_uplink, sidgen, networkobjects, relay>>

StartNick ==
    Begin("nick", IF protocol = "p10"
                  THEN p10_nick(Store, U1, "newnick", MaxTS, MaxTS)
                  ELSE ts6_nick(Store, U1, "newnick", MaxTS, MaxTS))

StartJoin ==
    protocol = "p10" /\ Begin("join", p10_join(Store, U1, ChanA, MaxTS))

StartPart ==
    Begin("part", IF protocol = "p10" THEN p10_part(Store, U1, ChanA)
                  ELSE ts6_part(Store, U1, ChanA))

StartKick ==
    Begin("kick", IF protocol = "p10" THEN p10_kick(Store, U1, ChanA, R1, MaxTS)
                  ELSE ts6_kick(Store, U1, ChanA, R1))

StartKill ==
    Begin("kill", IF protocol = "p10" THEN p10_kill(Store, U1, R1)
                  ELSE ts6_kill(Store, U1, R1))

StartQuit ==
    Begin("quit", IF protocol = "p10" THEN p10_quit(Store, U1, "bye")
                  ELSE ts6_quit(Store, U1, "bye"))

StartTopic ==
    Begin("topic", IF protocol = "p10" THEN p10_topic(Store, U1, ChanA, "news")
                   ELSE ts6_topic(Store, U1, ChanA, "news"))

StartTopicBurst ==
    /\ protocol = "p10"
    /\ Begin("topicBurst", p10_topicBurst(Store, OwnSID, ChanA, "old news"))

StartMode ==
    /\ protocol = "p10"
    /\ Begin("mode", p10_mode(Store, U1, ChanA, <<Plus("m", None)>>, MaxTS))

StartAway ==
    Begin("away", IF protocol = "p10" THEN p10_away(Store, U1, "gone")
                  ELSE ts6_away(Store, U1, "gone"))

\* U2 is the UID the generator hands out while no user has it.
StartSpawnClient ==
    /\ protocol = "p10"
    /\ ~users[U2].exists
    /\ Begin("spawnClient", p10_spawnClient(Store, "bot", OwnSID, U2, MaxTS))

StartSpawnServer ==
    Begin("spawnServer",
          IF protocol = "p10" THEN p10_spawnServer(Store, "sub.pylink", NewSID, OwnSID)
          ELSE ts6_spawnServer(Store, "sub.pylink", NewSID, OwnSID))

StartSjoin ==
    \E users_in \in SjoinUsers :
        /\ protocol = "p10"
        /\ Begin("sjoin", p10_sjoin(Store, OwnSID, ChanA, users_in, 0,
                                    {Plus("m", None)}, MaxTS))

NextSteps ==
    \/ StartNick \/ StartJoin \/ StartPart \/ StartKick \/ StartKill
    \/ StartQuit \/ StartTopic \/ StartTopicBurst \/ StartMode \/ StartAway
    \/ StartSpawnClient \/ StartSpawnServer \/ StartSjoin \/ Step \/ Return

SpecSteps == InitOut /\ [][NextSteps]_vars

\* C10: while an outbound operation runs, once it has written a line no
\* change of the state store is still to come: the store is changed before
\* the line is sent.
C10_StoreChangedBeforeSend ==
    (pc.op # "idle" /\ sent # <<>>) =>
        \A i \in 1..Len(pc.rest) : ~IsStoreStmt(pc.rest[i])

----------------------------------------------------------------------------
(* The link to the uplink: PASS, SERVER, END_OF_BURST (p10.py) *)

\* self.serverdata['recvpass'] and the passwords an uplink may send.
RecvPass == "recvpass"
Passwords == {RecvPass, "Recvpass", ""}

handle_pass_accept(st, password) == st

\* handle_pass(source, 'PASS', [password])
handle_pass(st, password) ==
    IF password # RecvPass THEN [st EXCEPT !.raised = TRUE] ELSE st

\* handle_server(source, 'SERVER', [name, hops, boot, link, proto, sid+max, ...]):
\* the server is recorded, and the first one recorded is the uplink.
handle_server(st, up, source, sid) ==
    [st |-> [st EXCEPT !.servers[sid] = IrcServer(source, FALSE)],
     uplink |-> IF up = None THEN sid ELSE up]

EOBAck == Line(OwnSID, "EA", <<>>)

handle_end_of_burst_any(st, up, source) ==
    [st |-> send(st, EOBAck), event |-> "{}"]

\* handle_end_of_burst(source, 'END_OF_BURST', [])
handle_end_of_burst(st, up, source) ==
    IF source = up THEN [st |-> send(st, EOBAck), event |-> "{}"]
    ELSE [st |-> st, event |-> None]

\* A P10 client numeric starts with the numeric of its server.
UIDServer(uid) ==
    IF uid \in {U1, U2} THEN OwnSID
    ELSE IF uid \in {R1, GhostUID} THEN UplinkSID
    ELSE NewSID

handle_nick_noadd(st, source, intro, nick, ts, uid) ==
    IF intro THEN [st EXCEPT !.users[uid] = IrcUser(nick, ts, source)]
    ELSE [st EXCEPT !.users[source].nick = nick, !.users[source].ts = ts]

\* handle_nick(source, 'NICK', args): with more than two arguments the line
\* introduces user uid on server source (the nick is one nobody has, so
\* check_nick_collision finds nothing to do); with two it is a nick change of
\* user source.
handle_nick(st, source, intro, nick, ts, uid) ==
    IF intro
    THEN IF ~InServers(st, source)
         THEN [st EXCEPT !.users[uid] = IrcUser(nick, ts, source),
                         !.raised = TRUE]
         ELSE [st EXCEPT !.users[uid] = IrcUser(nick, ts, source),
                         !.servers[source].users = @ \cup {uid}]
    ELSE IF ~InUsers(st, source) THEN [st EXCEPT !.raised = TRUE]
    ELSE [st EXCEPT !.users[source].nick = nick, !.users[source].ts = ts]

----------------------------------------------------------------------------
(* The link state machine of a P10 link, from before the handshake *)

InitNet ==
    /\ networkobjects = NoNetworks
    /\ relay = NoRelay
    /\ servers = [s \in SIDs |-> IF s = OwnSID
                                 THEN [IrcServer(None, TRUE) EXCEPT !.users = {U1}]
                                 ELSE NoServer]
    /\ users = [u \in UIDs |-> IF u = U1 THEN InitUsers[u] ELSE NoUser]
    /\ channels = [c \in ChanNames |-> NoChan]
    /\ sent = <<>>
    /\ last = NoLast
    /\ pc = Idle
    /\ fn = NoFn
    /\ protocol = "p10"
    /\ self_uplink = None
    /\ sidgen = NoGen

\* A ProtocolError ends the connection: no line is handled after it.
Fatal == last.op = "PASS" /\ last.raised

RemoteServers == {s \in SIDs : servers[s].exists /\ ~servers[s].internal}

\* The nick a user is introduced with, and the one it changes to.
NickOf(uid) == uid
NewNickOf(uid) == uid \o "_"

HandlePass ==
    \E password \in Passwords :
        /\ ~Fatal
        /\ Commit(handle_pass(Store, password))
        /\ last' = [NoLast EXCEPT !.op = "PASS", !.arg = password,
                                  !.raised = handle_pass(Store, password).raised]
        /\ UNCHANGED <<pc, fn, protocol, self_uplink, sidgen, networkobjects, relay>>

\* The uplink introduces itself first and the servers behind it afterwards; a
\* server is introduced while no server has its numeric.
HandleServer ==
    \E sid \in {UplinkSID, NewSID} :
        \E source \in (IF self_uplink = None THEN {None} ELSE RemoteServers) :
            /\ ~Fatal
            /\ ~servers[sid].exists
            /\ self_uplink = None => sid = UplinkSID
            /\ Commit(handle_server(Store, self_uplink, source, sid).st)
            /\ self_uplink' = handle_server(Store, self_uplink, source, sid).uplink
            /\ last' = [NoLast EXCEPT !.op = "SERVER", !.arg = sid]
            /\ UNCHANGED <<pc, fn, protocol, sidgen, networkobjects, relay>>

HandleEndOfBurst ==
    \E source \in RemoteServers :
        /\ ~Fatal
        /\ Commit(handle_end_of_burst(Store, self_uplink, source).st)
        /\ last' = [NoLast EXCEPT
                       !.op = "END_OF_BURST", !.arg = source,
                       !.event = handle_end_of_burst(Store, self_uplink, source).event]
        /\ UNCHANGED <<pc, fn, protocol, self_uplink, sidgen, networkobjects, relay>>

\* A server introduces its own users.
HandleNick ==
    \E uid \in {R1, R2}, ts \in TSRange :
        /\ ~Fatal
        /\ servers[UIDServer(uid)].exists
        /\ Commit(handle_nick(Store, UIDServer(uid), TRUE, NickOf(uid), ts, uid))
        /\ last' = [NoLast EXCEPT !.op = "NICK", !.arg = uid]
        /\ UNCHANGED <<pc, fn, protocol, self_uplink, sidgen, networkobjects, relay>>

HandleNickChange ==
    \E source \in {R1, R2} :
        /\ ~Fatal
        /\ users[source].exists
        /\ Commit(handle_nick(Store, source, FALSE, NewNickOf(source), MaxTS, None))
        /\ last' = [NoLast EXCEPT !.op = "NICK change", !.arg = source]
        /\ UNCHANGED <<pc, fn, protocol, self_uplink, sidgen, networkobjects, relay>>

NetSpawnClient ==
    \E server \in {OwnSID, UplinkSID} :
        /\ ~Fatal
        /\ ~users[U2].exists
        /\ Call("spawnClient", server, p10_spawnClient(Store, "pylink2", server, U2, MaxTS))

NetQuit ==
    \E numeric \in {U1, U2, R1} :
        /\ ~Fatal
        /\ Call("quit", numeric, p10_quit(Store, numeric, "bye"))

NetKill ==
    \E numeric \in {U1, OwnSID, R1}, target \in {U1, U2, R1, R2} :
        /\ ~Fatal
        /\ Call("kill", numeric, p10_kill(Store, numeric, target))

NextNet ==
    \/ HandlePass
    \/ HandleServer
    \/ HandleEndOfBurst
    \/ HandleNick
    \/ HandleNickChange
    \/ NetSpawnClient
    \/ NetQuit
    \/ NetKill

SpecNet == InitNet /\ [][NextNet]_vars

\* C11: a PASS whose password differs from the configured recvpass ends in a
\* ProtocolError, and an equal one raises nothing; in neither case does
\* handle_pass create or change a server, a user or a channel, or send a line.
C11_PassMismatchIsFatal ==
    /\ \A password \in Passwords :
          LET r == handle_pass(Store, password)
          IN /\ r.raised <=> password # RecvPass
             /\ r.servers = servers
             /\ r.users = users
             /\ r.channels = channels
             /\ r.sent = <<>>
    /\ last.op = "PASS" => (last.raised <=> last.arg # RecvPass)

C11_Witness ==
    /\ last.op = "PASS"
    /\ last.raised
    /\ self_uplink = UplinkSID
    /\ users[R1].exists

C11_WitnessAccepted ==
    /\ last.op = "PASS"
    /\ ~last.raised

\* C12: an END_OF_BURST from the recorded uplink is answered with exactly one
\* EA line from the engine's own SID; one from any other server sends no line
\* and returns no event.
C12_EndOfBurstAckOnlyToUplink ==
    last.op = "END_OF_BURST" =>
        IF last.arg = self_uplink
        THEN sent = <<Line(OwnSID, "EA", <<>>)>>
        ELSE sent = <<>> /\ last.event = None

C12_Witness ==
    /\ last.op = "END_OF_BURST"
    /\ last.arg = NewSID
    /\ self_uplink = UplinkSID
    /\ sent = <<>>

C12_WitnessAck ==
    /\ last.op = "END_OF_BURST"
    /\ last.arg = UplinkSID
    /\ Len(sent) = 1

----------------------------------------------------------------------------
(* PART and KICK, incoming and outbound, in both protocol classes *)

\* self.cmodes['permanent'] (p10.py line 787) as a channel mode.
Permanent == <<"z", None>>

\* P10Protocol.handle_kick(source, 'KICK', [channel, kicked, reason]): the
\* kicked user parts, and the part is acknowledged with an L line.
p10_handle_kick(st, source, channel_arg, kicked, clock) ==
    LET channel == toLower(channel_arg) IN
    send(handle_part(st, kicked, channel, clock, "p10"),
         Line(kicked, "L", <<channel>>))

\* TS6BaseProtocol.handle_kick(source, 'KICK', [channel, kicked])
ts6_handle_kick(st, source, channel_arg, kicked, clock) ==
    LET channel == toLower(channel_arg) IN
    handle_part(st, kicked, channel, clock, "ts6")

\* A channel with the given members, permanent or not.
PartChan(members, perm) ==
    IF members = {} /\ ~perm THEN NoChan
    ELSE [NewChan(1) EXCEPT !.users = members,
                            !.modes = IF perm THEN {Permanent} ELSE {}]

PartMembers == SUBSET {U1, R1}

InitPart ==
    /\ networkobjects = NoNetworks
    /\ relay = NoRelay
    /\ \E mA \in PartMembers, mB \in PartMembers, pA \in BOOLEAN, pB \in BOOLEAN :
        /\ servers = InitServersWithUsers
        /\ users = [u \in UIDs |->
                      [InitUsers[u] EXCEPT
                          !.channels = (IF u \in mA THEN {ChanA} ELSE {})
                                       \cup (IF u \in mB THEN {ChanB} ELSE {})]]
        /\ channels = [c \in ChanNames |->
                         IF c = ChanA THEN PartChan(mA, pA)
                         ELSE IF c = ChanB THEN PartChan(mB, pB)
                         ELSE NoChan]
        /\ sent = <<>>
        /\ last = NoLast
        /\ pc = Idle
        /\ fn = NoFn
        /\ protocol \in Dialects
        /\ self_uplink = UplinkSID
        /\ sidgen = NoGen

PartChans == {ChanA, ChanB}

\* What the channel was before the operation.
PrevChan(channel) ==
    [exists |-> channels[channel].exists,
     users |-> channels[channel].users,
     permanent |-> Permanent \in channels[channel].modes]

Left(op, channel, uid, raised) ==
    last' = [NoLast EXCEPT !.op = op, !.chan = channel, !.arg = uid,
                           !.raised = raised, !.prev = PrevChan(channel)]

PartHandlePart ==
    \E source \in {U1, R1}, channel \in PartChans :
        /\ Commit(handle_part(Store, source, channel, MaxTS, protocol))
        /\ Left("PART", channel, source, FALSE)
        /\ UNCHANGED <<pc, fn, protocol, self_uplink, sidgen, networkobjects, relay>>

PartHandleKick ==
    \E source \in {R1}, kicked \in {U1, R1}, channel \in PartChans :
        /\ Commit(IF protocol = "p10"
                  THEN p10_handle_kick(Store, source, channel, kicked, MaxTS)
                  ELSE ts6_handle_kick(Store, source, channel, kicked, MaxTS))
        /\ Left("KICK", channel, kicked, FALSE)
        /\ UNCHANGED <<pc, fn, protocol, self_uplink, sidgen, networkobjects, relay>>

PartCall(op, channel, uid, stmts) ==
    /\ Commit(stmts_exec(Store, stmts, MaxTS))
    /\ Left(op, channel, uid, RaisedIn(stmts))
    /\ UNCHANGED <<pc, fn, protocol, self_uplink, sidgen, networkobjects, relay>>

PartPart ==
    \E client \in {U1, R1}, channel \in PartChans :
        PartCall("part", channel, client,
                 IF protocol = "p10" THEN p10_part(Store, client, channel)
                 ELSE ts6_part(Store, client, channel))

PartKick ==
    \E numeric \in {U1, OwnSID}, target \in {U1, R1}, channel \in PartChans :
        PartCall("kick", channel, target,
                 IF protocol = "p10"
                 THEN p10_kick(Store, numeric, channel, target, MaxTS)
                 ELSE ts6_kick(Store, numeric, channel, target))

NextPart == PartHandlePart \/ PartHandleKick \/ PartPart \/ PartKick

SpecPart == InitPart /\ [][NextPart]_vars

\* Did the last operation remove the last member of its channel?
RemovedLastMember ==
    /\ last.op \in {"PART", "KICK", "part", "kick"}
    /\ ~last.raised
    /\ last.prev.exists
    /\ last.prev.users = {last.arg}

\* C13: in both protocol classes, when a PART or KICK, incoming or outbound,
\* removes the last member of a channel, the channel is deleted if and only
\* if it carries no permanent mode.
C13_EmptyChannelDeletedUnlessPermanent ==
    RemovedLastMember => (channels[last.chan].exists <=> last.prev.permanent)

\* The part of C13 that the TS6 base class keeps.
C13_TS6EmptyChannelDeletedUnlessPermanent ==
    (protocol = "ts6" /\ RemovedLastMember)
        => (channels[last.chan].exists <=> last.prev.permanent)

C13_TS6Witness ==
    /\ protocol = "ts6"
    /\ RemovedLastMember
    /\ last.prev.permanent
    /\ channels[last.chan].exists
    /\ channels[last.chan].users = {}

----------------------------------------------------------------------------
(* squit() in both protocol classes, on a small server tree *)

\* The third server is absent, a remote server behind the uplink, or a server
\* spawned off our own; R2 is its user.
SquitTrees == {"none", "remote", "internal"}

SquitServers(tree, r2) ==
    [s \in SIDs |->
        IF s = NewSID
        THEN IF tree = "none" THEN NoServer
             ELSE [IrcServer(IF tree = "remote" THEN UplinkSID ELSE OwnSID,
                             tree = "internal")
                   EXCEPT !.users = IF r2 THEN {R2} ELSE {}]
        ELSE InitServersWithUsers[s]]

SquitUsers(r2, members) ==
    [u \in UIDs |->
        LET user == IF u = R2 /\ r2 THEN IrcUser("r2", 1, NewSID) ELSE InitUsers[u]
        IN [user EXCEPT !.channels = IF u \in members THEN {ChanA} ELSE {}]]

InitSquit ==
    /\ networkobjects = NoNetworks
    /\ relay = NoRelay
    /\ \E tree \in SquitTrees, r2 \in BOOLEAN, perm \in BOOLEAN :
        \E members \in SUBSET ({U1, R1} \cup (IF r2 THEN {R2} ELSE {})) :
            /\ r2 => tree # "none"
            /\ servers = SquitServers(tree, r2)
            /\ users = SquitUsers(r2, members)
            /\ channels = [c \in ChanNames |->
                             IF c = ChanA THEN PartChan(members, perm) ELSE NoChan]
            /\ sent = <<>>
            /\ last = NoLast
            /\ pc = Idle
            /\ fn = NoFn
            /\ protocol \in Dialects
            /\ self_uplink = UplinkSID
            /\ sidgen = NoGen

\* The uplink of every server and the home server of every user, before the
\* operation.
PrevTree ==
    [uplinks |-> [s \in SIDs |-> IF servers[s].exists THEN servers[s].uplink ELSE None],
     present |-> {s \in SIDs : servers[s].exists},
     homes |-> [u \in UIDs |-> IF users[u].exists THEN users[u].server ELSE None]]

SquitSquit ==
    \E source \in {OwnSID, U1}, target \in {UplinkSID, NewSID} :
        /\ Commit(stmts_exec(Store,
                             IF protocol = "p10" THEN p10_squit(Store, source, target)
                             ELSE ts6_squit(Store, source, target),
                             MaxTS))
        /\ last' = [NoLast EXCEPT
                       !.op = "squit", !.arg = target, !.prev = PrevTree,
                       !.raised = RaisedIn(IF protocol = "p10"
                                           THEN p10_squit(Store, source, target)
                                           ELSE ts6_squit(Store, source, target))]
        /\ UNCHANGED <<pc, fn, protocol, self_uplink, sidgen, networkobjects, relay>>

SquitSpawnServer ==
    \E uplink_sid \in {OwnSID, NewSID} :
        /\ Commit(stmts_exec(Store,
                             IF protocol = "p10"
                             THEN p10_spawnServer(Store, "new.server", NewSID, uplink_sid)
                             ELSE ts6_spawnServer(Store, "new.server", NewSID, uplink_sid),
                             MaxTS))
        /\ last' = [NoLast EXCEPT !.op = "spawnServer", !.arg = NewSID]
        /\ UNCHANGED <<pc, fn, protocol, self_uplink, sidgen, networkobjects, relay>>

NextSquit == SquitSquit \/ SquitSpawnServer

SpecSquit == InitSquit /\ [][NextSquit]_vars

\* Does the uplink chain of server s pass through root, within n steps?
RECURSIVE PassesThrough(_, _, _, _)
PassesThrough(tree, s, root, n) ==
    IF s = root THEN TRUE
    ELSE IF n = 0 \/ s \notin tree.present THEN FALSE
    ELSE PassesThrough(tree, tree.uplinks[s], root, n - 1)

SquitGone ==
    {s \in last.prev.present :
        PassesThrough(last.prev, s, last.arg, Cardinality(SIDs))}

\* C14: after squit(source, target) the target server and every server whose
\* uplink chain passes through it are absent from the server table, and no
\* user that was homed on one of them is left in the user table or in the
\* member set of a channel.
C14_SquitCascades ==
    (last.op = "squit" /\ ~last.raised) =>
        /\ \A s \in SquitGone : ~servers[s].exists
        /\ \A u \in UIDs :
              last.prev.homes[u] \in SquitGone =>
                  /\ ~users[u].exists
                  /\ \A c \in ChanNames : u \notin channels[c].users

\* The uplink is split with a server and a channel member behind it.
C14_Witness ==
    /\ last.op = "squit"
    /\ ~last.raised
    /\ last.arg = UplinkSID
    /\ SquitGone = {UplinkSID, NewSID}
    /\ last.prev.homes[R2] = NewSID
    /\ ~users[R2].exists
    /\ channels[ChanA].exists

----------------------------------------------------------------------------
(* Channel names in upper case *)

\* handle_topic(source, 'TOPIC', [channel, ..., topic]) of both protocol
\* classes.
handle_topic(st, source, channel_arg, topic, clock) ==
    LET channel == toLower(channel_arg)
    IN [st EXCEPT !.channels = [Touch(@, channel, clock) EXCEPT
                                   ![channel].topic = topic,
                                   ![channel].topicset = TRUE]]

\* The names a channel is addressed by.
CaseNames == {ChanA, ChanUpper}

CaseCall(op, name, stmts) ==
    /\ Commit(stmts_exec(Store, stmts, MaxTS))
    /\ last' = [NoLast EXCEPT !.op = op, !.chan = name, !.raised = RaisedIn(stmts)]
    /\ UNCHANGED <<pc, fn, protocol, self_uplink, sidgen, networkobjects, relay>>

CaseHandled(op, name, st) ==
    /\ Commit(st)
    /\ last' = [NoLast EXCEPT !.op = op, !.chan = name]
    /\ UNCHANGED <<pc, fn, protocol, self_uplink, sidgen, networkobjects, relay>>

CaseHandleJoin ==
    \E name \in CaseNames :
        /\ protocol = "p10"
        /\ CaseHandled("JOIN", name, handle_join(Store, R1, "JOIN", name, 1, MaxTS))

CaseHandlePart ==
    \E name \in CaseNames :
        CaseHandled("PART", name, handle_part(Store, R1, name, MaxTS, protocol))

CaseHandleTopic ==
    \E name \in CaseNames :
        CaseHandled("TOPIC", name, handle_topic(Store, R1, name, "news", MaxTS))

CaseJoin ==
    \E name \in CaseNames :
        /\ protocol = "p10"
        /\ CaseCall("join", name, p10_join(Store, U1, name, MaxTS))

CasePart ==
    \E name \in CaseNames :
        CaseCall("part", name,
                 IF protocol = "p10" THEN p10_part(Store, U1, name)
                 ELSE ts6_part(Store, U1, name))

CaseKick ==
    \E name \in CaseNames :
        CaseCall("kick", name,
                 IF protocol = "p10" THEN p10_kick(Store, U1, name, R1, MaxTS)
                 ELSE ts6_kick(Store, U1, name, R1))

CaseTopic ==
    \E name \in CaseNames, text \in {"news", "old"} :
        CaseCall("topic", name,
                 IF protocol = "p10" THEN p10_topic(Store, U1, name, text)
                 ELSE ts6_topic(Store, U1, name, text))

CaseTopicBurst ==
    \E name \in CaseNames :
        /\ protocol = "p10"
        /\ CaseCall("topicBurst", name, p10_topicBurst(Store, OwnSID, name, "news"))

CaseInvite ==
    \E name \in CaseNames :
        /\ protocol = "p10"
        /\ CaseCall("invite", name, p10_invite(Store, U1, R1, name))

NextCase ==
    \/ CaseHandleJoin
    \/ CaseHandlePart
    \/ CaseHandleTopic
    \/ CaseJoin
    \/ CasePart
    \/ CaseKick
    \/ CaseTopic
    \/ CaseTopicBurst
    \/ CaseInvite

SpecCase == InitOut /\ [][NextCase]_vars

LowerCased == {ChanA, ChanB}

\* C16: every key of the channel table is a lower-cased channel name, also
\* after topic, topicBurst or invite was called with a name in upper case.
C16_ChannelKeysLowerCased ==
    \A name \in ChanNames : channels[name].exists => name \in LowerCased

----------------------------------------------------------------------------
(* P10SIDGenerator (p10.py) *)

\* The alphabet of base64.b64encode(..., b'[]'): the standard one with "[" and
\* "]" in the place of "+" and "/".
B64Chars ==
    <<"A", "B", "C", "D", "E", "F", "G", "H", "I", "J", "K", "L", "M",
      "N", "O", "P", "Q", "R", "S", "T", "U", "V", "W", "X", "Y", "Z",
      "a", "b", "c", "d", "e", "f", "g", "h", "i", "j", "k", "l", "m",
      "n", "o", "p", "q", "r", "s", "t", "u", "v", "w", "x", "y", "z",
      "0", "1", "2", "3", "4", "5", "6", "7", "8", "9", "[", "]">>

\* One base64 digit holds six bits.
B64Base == 64

\* struct.pack('>I', num)[1:] keeps the low three bytes of num.
PackedBits == 24

\* A function that maps every number to the same SID.
p10b64encode_const(num) == B64Chars[1] \o B64Chars[1]

\* p10b64encode(num): the last two base64 digits of the three packed bytes,
\* i.e. the low twelve bits of num.
p10b64encode(num) ==
    LET packed == num % (2 ^ PackedBits)
    IN B64Chars[((packed \div B64Base) % B64Base) + 1]
       \o B64Chars[(packed % B64Base) + 1]

\* P10SIDGenerator(irc) with sidrange "minnum-maxnum".  `calls` is not a field
\* of the object: it counts the calls that returned a SID.
P10SIDGenerator(minnum, maxnum) ==
    [kind |-> "p10", minnum |-> minnum, maxnum |-> maxnum,
     currentnum |-> minnum, calls |-> 0]

\* P10SIDGenerator.next_sid()
p10_next_sid(gen) ==
    IF gen.currentnum > gen.maxnum
    THEN [gen |-> gen, sid |-> None, raised |-> "ProtocolError"]
    ELSE LET sid == p10b64encode(gen.currentnum)
         IN [gen |-> [gen EXCEPT !.currentnum = @ + 1, !.calls = @ + 1],
             sid |-> sid, raised |-> None]

\* The largest number a configured range ends at: one more than the 4096
\* numbers two base64 digits can tell apart.
MaxNum == 4096

\* sidrange settings: short ranges at both ends and in the middle, and the
\* ranges that end at MaxNum.
SidRanges ==
    {<<0, 1>>, <<5, 5>>, <<62, 66>>, <<MaxNum - 3, MaxNum - 1>>,
     <<MaxNum - 2, MaxNum>>, <<0, MaxNum>>}

InitSidP10 ==
    /\ networkobjects = NoNetworks
    /\ relay = NoRelay
    /\ servers = InitServersWithUsers
    /\ users = InitUsers
    /\ channels = [c \in ChanNames |-> NoChan]
    /\ sent = <<>>
    /\ last = NoLast
    /\ pc = Idle
    /\ fn = NoFn
    /\ protocol = "p10"
    /\ self_uplink = UplinkSID
    /\ \E r \in SidRanges : sidgen = P10SIDGenerator(r[1], r[2])

\* After the error the generator is not called again.
P10NextSid ==
    /\ ~last.raised
    /\ sidgen' = p10_next_sid(sidgen).gen
    /\ last' = [NoLast EXCEPT !.op = "next_sid",
                              !.event = p10_next_sid(sidgen).sid,
                              !.raised = p10_next_sid(sidgen).raised # None]
    /\ UNCHANGED <<servers, users, channels, sent, pc, fn, protocol, self_uplink, networkobjects, relay>>

NextSidP10 == P10NextSid

SpecSidP10 == InitSidP10 /\ [][NextSidP10]_vars

\* The SIDs the calls before the last one returned: the generator has handed
\* out the encodings of the numbers from minnum up to currentnum - 2.
ReturnedBefore(gen) ==
    {p10b64encode(n) : n \in gen.minnum..(gen.currentnum - 2)}

\* C20: for every configured range the generator returns exactly
\* maxnum-minnum+1 SIDs, pairwise distinct and of two characters each, and the
\* call after them raises ProtocolError.
C20_P10SidsDistinctThenError ==
    /\ sidgen.calls <= sidgen.maxnum - sidgen.minnum + 1
    /\ last.raised => sidgen.calls = sidgen.maxnum - sidgen.minnum + 1
    /\ (last.op = "next_sid" /\ ~last.raised) =>
          /\ Len(last.event) = SIDLength
          /\ last.event \notin ReturnedBefore(sidgen)

\* The part of C20 that holds: the number of SIDs returned before the error,
\* and their length.
C20_P10ReturnsRangeManyThenError ==
    /\ sidgen.calls <= sidgen.maxnum - sidgen.minnum + 1
    /\ last.raised => sidgen.calls = sidgen.maxnum - sidgen.minnum + 1
    /\ (last.op = "next_sid" /\ ~last.raised) => Len(last.event) = SIDLength

----------------------------------------------------------------------------
(* TS6SIDGenerator (ts6_common.py) *)

\* string.digits and string.digits + string.ascii_uppercase
Digits == <<"0", "1", "2", "3", "4", "5", "6", "7", "8", "9">>
AlnumUpper ==
    Digits \o <<"A", "B", "C", "D", "E", "F", "G", "H", "I", "J", "K", "L", "M",
                "N", "O", "P", "Q", "R", "S", "T", "U", "V", "W", "X", "Y", "Z">>

Wildcard == "#"

\* A SID is three characters long; positions are counted from 1 here and
\* from 0 in the code.
TS6SIDLength == 3

\* self.allowedchars[idx] of a wildcard position (lines 49-53).
allowedchars(idx) == IF idx = 1 THEN Digits ELSE AlnumUpper

\* ''.join(self.output)
join(output) == output[1] \o output[2] \o output[3]

\* TS6SIDGenerator(irc) with sidrange `query`.  The object gets the
\* attributes irc, query, iters, output and allowedchars and no other.  An
\* entry of iters is the number of characters the iterator of a wildcard
\* position has yielded, and 0 at a fixed position, where the entry is the
\* character itself and not an iterator.  `returned` is not a field of the
\* object: it records the SIDs that next_sid has returned.
TS6SIDGenerator(query) ==
    [kind |-> "ts6",
     attrs |-> {"irc", "query", "iters", "output", "allowedchars"},
     query |-> query,
     iters |-> [idx \in 1..TS6SIDLength |-> IF query[idx] = Wildcard THEN 1 ELSE 0],
     output |-> [idx \in 1..TS6SIDLength |->
                   IF query[idx] = Wildcard THEN allowedchars(idx)[1] ELSE query[idx]],
     returned |-> <<>>]

\* increment(pos): pos is 0 where the code has -1.
RECURSIVE increment(_, _)
increment(gen, pos) ==
    IF pos < 1 THEN [gen |-> gen, raised |-> "RuntimeError"]
    ELSE IF gen.query[pos] # Wildcard
    THEN increment(gen, pos - 1)                           \* TypeError
    ELSE IF gen.iters[pos] < Len(allowedchars(pos))
    THEN [gen |-> [gen EXCEPT !.output[pos] = allowedchars(pos)[gen.iters[pos] + 1],
                              !.iters[pos] = @ + 1],
          raised |-> None]
    ELSE increment([gen EXCEPT !.output[pos] = allowedchars(pos)[1],   \* StopIteration
                               !.iters[pos] = 1],
                   pos - 1)

\* The loop of next_sid over a table of SIDs.
RECURSIVE next_sid_loop(_, _)
next_sid_loop(gen, table) ==
    IF join(gen.output) \in table
    THEN LET r == increment(gen, TS6SIDLength)
         IN IF r.raised # None THEN [gen |-> r.gen, sid |-> None, raised |-> r.raised]
            ELSE next_sid_loop(r.gen, table)
    ELSE [gen |-> [gen EXCEPT !.returned = Append(@, gen.output)],
          sid |-> join(gen.output), raised |-> None]

\* next_sid(): the loop tests membership in self.servers, an attribute the
\* generator object does not have, so that the first evaluation of the test
\* raises AttributeError.
ts6_next_sid(gen) ==
    IF "servers" \notin gen.attrs
    THEN [gen |-> gen, sid |-> None, raised |-> "AttributeError"]
    ELSE next_sid_loop(gen, gen.servers)

\* spawnServer(name, sid=None, uplink): the SID comes from the generator
\* (lines 263-264).
ts6_spawnServer_nosid(st, gen, name, uplink) ==
    LET r == ts6_next_sid(gen)
    IN IF r.raised # None THEN <<Raise(r.raised)>>
       ELSE ts6_spawnServer(st, name, r.sid, uplink)

----------------------------------------------------------------------------
(* A TS6 link that spawns and splits servers *)

\* The sidrange settings of the docstring of the generator.
Queries == {<<"1", "#", "A">>, <<"#", "B", "Q">>, <<"6", "#", "#">>}

\* The SIDs a server is spawned with when the caller names the SID.
NamedSIDs == {"10A", "11A", "0BQ", "600"}

InitSid ==
    /\ networkobjects = NoNetworks
    /\ relay = NoRelay
    /\ servers = [s \in SIDs \cup NamedSIDs |->
                    IF s \in SIDs THEN InitServersWithUsers[s] ELSE NoServer]
    /\ users = InitUsers
    /\ channels = [c \in ChanNames |-> NoChan]
    /\ sent = <<>>
    /\ last = NoLast
    /\ pc = Idle
    /\ fn = NoFn
    /\ protocol = "ts6"
    /\ self_uplink = UplinkSID
    /\ \E query \in Queries : sidgen = TS6SIDGenerator(query)

SidNextSid ==
    /\ sidgen' = ts6_next_sid(sidgen).gen
    /\ last' = [NoLast EXCEPT !.op = "next_sid",
                              !.arg = ts6_next_sid(sidgen).sid,
                              !.event = ts6_next_sid(sidgen).raised,
                              !.raised = ts6_next_sid(sidgen).raised # None,
                              !.prev = {s \in DOMAIN servers : servers[s].exists}]
    /\ UNCHANGED <<servers, users, channels, sent, pc, fn, protocol, self_uplink, networkobjects, relay>>

SidSpawnServer ==
    /\ Commit(stmts_exec(Store,
                         ts6_spawnServer_nosid(Store, sidgen, "new.server", OwnSID),
                         MaxTS))
    /\ sidgen' = ts6_next_sid(sidgen).gen
    /\ last' = [NoLast EXCEPT
                   !.op = "spawnServer",
                   !.raised = RaisedIn(ts6_spawnServer_nosid(Store, sidgen,
                                                             "new.server", OwnSID))]
    /\ UNCHANGED <<pc, fn, protocol, self_uplink, networkobjects, relay>>

SidSpawnServerNamed ==
    \E sid \in NamedSIDs :
        /\ Commit(stmts_exec(Store, ts6_spawnServer(Store, "new.server", sid, OwnSID),
                             MaxTS))
        /\ last' = [NoLast EXCEPT
                       !.op = "spawnServer(sid)", !.arg = sid,
                       !.raised = RaisedIn(ts6_spawnServer(Store, "new.server", sid,
                                                           OwnSID))]
        /\ UNCHANGED <<pc, fn, protocol, self_uplink, sidgen, networkobjects, relay>>

SidSquit ==
    \E target \in NamedSIDs :
        /\ servers[target].exists
        /\ Commit(stmts_exec(Store, ts6_squit(Store, OwnSID, target), MaxTS))
        /\ last' = [NoLast EXCEPT !.op = "squit", !.arg = target]
        /\ UNCHANGED <<pc, fn, protocol, self_uplink, sidgen, networkobjects, relay>>

NextSid == SidNextSid \/ SidSpawnServer \/ SidSpawnServerNamed \/ SidSquit

SpecSid == InitSid /\ [][NextSid]_vars

\* The place of a character in the order of the generator, and the order of
\* two SIDs: the leftmost position where they differ decides.
CharIndex(ch) == CHOOSE i \in 1..Len(AlnumUpper) : AlnumUpper[i] = ch

RECURSIVE SidLess(_, _, _)
SidLess(a, b, idx) ==
    IF idx > TS6SIDLength THEN FALSE
    ELSE IF a[idx] # b[idx] THEN CharIndex(a[idx]) < CharIndex(b[idx])
    ELSE SidLess(a, b, idx + 1)

\* The number of SIDs of a template: the product of its wildcard alphabets.
QueryProduct(query) ==
    LET n(idx) == IF query[idx] = Wildcard THEN Len(allowedchars(idx)) ELSE 1
    IN n(1) * n(2) * n(3)

\* C17: a call of next_sid returns a SID that is not in the live server table
\* and that comes after every SID returned before in lexical-carry order,
\* until the template is used up.
C17_NextSidIncreasingAndNotLive ==
    last.op = "next_sid" =>
        \/ /\ last.event = "RuntimeError"
           /\ Len(sidgen.returned) = QueryProduct(sidgen.query)
        \/ /\ ~last.raised
           /\ last.arg \notin last.prev
           /\ last.arg = join(sidgen.returned[Len(sidgen.returned)])
           /\ \A i \in 1..(Len(sidgen.returned) - 1) :
                 SidLess(sidgen.returned[i],
                         sidgen.returned[Len(sidgen.returned)], 1)

\* C18: the generator returns as many distinct SIDs as the product of its
\* wildcard alphabets, and the call after the last one raises RuntimeError.
C18_ReturnsProductManyThenRuntimeError ==
    /\ Len(sidgen.returned) <= QueryProduct(sidgen.query)
    /\ \A i, j \in 1..Len(sidgen.returned) :
          i # j => sidgen.returned[i] # sidgen.returned[j]
    /\ last.op = "next_sid" =>
          (last.raised <=> /\ last.event = "RuntimeError"
                           /\ Len(sidgen.returned) = QueryProduct(sidgen.query))
    /\ (last.op = "next_sid" /\ ~last.raised) => Len(sidgen.returned) > 0

\* C19: SIDs are not reused: whatever servers were spawned or split in
\* between, a call of next_sid returns a SID that no earlier call of the same
\* generator has returned, and the only error it ends in is the RuntimeError
\* of a used-up template, after which no returned SID comes back either.
C19_ReturnedSidNeverReturnedAgain ==
    last.op = "next_sid" =>
        IF last.raised THEN last.event = "RuntimeError"
        ELSE \A i \in 1..(Len(sidgen.returned) - 1) :
                join(sidgen.returned[i]) # last.arg

----------------------------------------------------------------------------
(* spawnServer of P10 with a generated SID *)

\* spawnServer(name, sid=None, uplink): the SID comes from the generator
\* (p10.py lines 644-645) and is then tested against the server table.
p10_spawnServer_nosid(st, gen, name, uplink) ==
    LET r == p10_next_sid(gen)
    IN IF r.raised # None THEN <<Raise(r.raised)>>
       ELSE p10_spawnServer(st, name, r.sid, uplink)

\* p10b64encode(3), the first SID after those of the three servers.
FourthSID == "AD"

\* sidrange settings around the numerics of the servers of the link: "AA" is
\* p10b64encode(0), "AB" is p10b64encode(1), "AC" is p10b64encode(2).
SpawnRanges == {<<1, 3>>, <<2, 3>>, <<3, 3>>, <<0, 1>>}

InitSpawn ==
    /\ networkobjects = NoNetworks
    /\ relay = NoRelay
    /\ servers = [s \in SIDs \cup {FourthSID} |->
                    IF s \in SIDs THEN InitServersWithUsers[s] ELSE NoServer]
    /\ users = InitUsers
    /\ channels = [c \in ChanNames |-> NoChan]
    /\ sent = <<>>
    /\ last = NoLast
    /\ pc = Idle
    /\ fn = NoFn
    /\ protocol = "p10"
    /\ self_uplink = UplinkSID
    /\ \E r \in SpawnRanges : sidgen = P10SIDGenerator(r[1], r[2])

LiveSIDs == {s \in DOMAIN servers : servers[s].exists}

SpawnSpawnServer ==
    /\ Commit(stmts_exec(Store,
                         p10_spawnServer_nosid(Store, sidgen, "new.server", OwnSID),
                         MaxTS))
    /\ sidgen' = p10_next_sid(sidgen).gen
    /\ last' = [NoLast EXCEPT
                   !.op = "spawnServer",
                   !.arg = p10_next_sid(sidgen).sid,
                   !.prev = LiveSIDs,
                   !.raised = RaisedIn(p10_spawnServer_nosid(Store, sidgen,
                                                             "new.server", OwnSID))]
    /\ UNCHANGED <<pc, fn, protocol, self_uplink, networkobjects, relay>>

\* The uplink introduces a server behind it.
SpawnHandleServer ==
    \E sid \in {NewSID, FourthSID} :
        /\ ~servers[sid].exists
        /\ Commit(handle_server(Store, self_uplink, UplinkSID, sid).st)
        /\ last' = [NoLast EXCEPT !.op = "SERVER", !.arg = sid]
        /\ UNCHANGED <<pc, fn, protocol, self_uplink, sidgen, networkobjects, relay>>

SpawnSquit ==
    \E target \in {NewSID, FourthSID} :
        /\ servers[target].exists
        /\ Commit(stmts_exec(Store, p10_squit(Store, OwnSID, target), MaxTS))
        /\ last' = [NoLast EXCEPT !.op = "squit", !.arg = target]
        /\ UNCHANGED <<pc, fn, protocol, self_uplink, sidgen, networkobjects, relay>>

NextSpawn == SpawnSpawnServer \/ SpawnHandleServer \/ SpawnSquit

SpecSpawn == InitSpawn /\ [][NextSpawn]_vars

\* C21: the SID the generator returns to spawnServer is not a key of the
\* server table, so that spawnServer without a sid does not fail with "A
\* server with SID ... already exists".
C21_GeneratedSidNotLive ==
    (last.op = "spawnServer" /\ last.arg # None) =>
        /\ last.arg \notin last.prev
        /\ ~last.raised

\* ---------------------------------------------------------------------------
\* IP addresses on the NICK line (spawnClient's encoding, decode_p10_ip)
\* ---------------------------------------------------------------------------

\* Text is a sequence of one-character strings, bytes a sequence of 0..255.
Marker == "_"

\* An IPv6 address is sixteen bytes.
PackedIPv6Len == 16

IsB64(ch) == \E i \in 1..Len(B64Chars) : B64Chars[i] = ch

B64Value(ch) == (CHOOSE i \in 1..Len(B64Chars) : B64Chars[i] = ch) - 1

\* base64.b64encode(data, b'[]') of a whole number of three-byte groups.
RECURSIVE b64encode(_)
b64encode(data) ==
    IF Len(data) < 3 THEN <<>>
    ELSE LET n == (data[1] * 256 + data[2]) * 256 + data[3]
         IN <<B64Chars[(n \div (B64Base * B64Base * B64Base)) + 1],
              B64Chars[((n \div (B64Base * B64Base)) % B64Base) + 1],
              B64Chars[((n \div B64Base) % B64Base) + 1],
              B64Chars[(n % B64Base) + 1]>>
            \o b64encode(SubSeq(data, 4, Len(data)))

RECURSIVE b64decode_groups(_)
b64decode_groups(text) ==
    IF Len(text) < 4 THEN <<>>
    ELSE LET n == ((B64Value(text[1]) * B64Base + B64Value(text[2])) * B64Base
                    + B64Value(text[3])) * B64Base + B64Value(text[4])
         IN <<n \div (256 * 256), (n \div 256) % 256, n % 256>>
            \o b64decode_groups(SubSeq(text, 5, Len(text)))

\* base64.b64decode(text, altchars='[]'): characters outside the alphabet are
\* discarded, and what is left must be a whole number of four-character groups.
b64decode(text) ==
    LET data == SelectSeq(text, IsB64)
    IN IF Len(data) % 4 # 0 THEN [raised |-> "binascii.Error", bytes |-> <<>>]
       ELSE [raised |-> None, bytes |-> b64decode_groups(data)]

\* None, where an address is expected.
NoAddress == [version |-> 0, bytes |-> <<>>]

IPv4(bytes) == [version |-> 4, bytes |-> bytes]
IPv6(bytes) == [version |-> 6, bytes |-> bytes]

\* The else branch of spawnClient's encoding taken for every address.
spawnClient_b64ip_fallback(ip) == <<"A", "A", "A", "A", "A", "A">>

\* spawnClient: the text put in the IP field of the NICK line.
spawnClient_b64ip(ip) ==
    IF ip.version = 4
    THEN LET packed == <<0, 0>> \o ip.bytes
         IN SubSeq(b64encode(packed), 3, Len(b64encode(packed)))
    ELSE <<"A", "A", "A", "A", "A", "A">>

Returned(value) == [raised |-> None, value |-> value]
Failed(what) == [raised |-> what, value |-> NoAddress]

\* socket.inet_ntoa / socket.inet_ntop(AF_INET6, ...): the packed address must
\* have the exact length of its family.
inet_ntoa(bytes) ==
    IF Len(bytes) = 4 THEN Returned(IPv4(bytes)) ELSE Failed("OSError")

inet_ntop6(bytes) ==
    IF Len(bytes) = PackedIPv6Len THEN Returned(IPv6(bytes)) ELSE Failed("ValueError")

\* The loop over three-character sections: each section gives two bytes.
RECURSIVE decode_sections(_)
decode_sections(text) ==
    IF Len(text) = 0 THEN [raised |-> None, bytes |-> <<>>]
    ELSE LET section == SubSeq(text, 1, Min(3, Len(text)))
             d == b64decode(<<"A">> \o section)
             rest == decode_sections(SubSeq(text, Len(section) + 1, Len(text)))
         IN IF d.raised # None THEN d
            ELSE IF rest.raised # None THEN rest
            ELSE [raised |-> None, bytes |-> SubSeq(d.bytes, 2, Len(d.bytes)) \o rest.bytes]

MarkerAt(text) == {i \in 1..Len(text) : text[i] = Marker}

Zeros(n) == [i \in 1..n |-> 0]

\* decode_p10_ip(ip).  The text inet_ntop returns, with "0" put before a
\* leading ":", denotes the address of the sixteen bytes; with no branch taken
\* the function returns None.
decode_p10_ip(ip) ==
    IF Len(ip) = 6
    THEN LET d == b64decode(<<"A", "A">> \o ip)
         IN IF d.raised # None THEN Failed(d.raised)
            ELSE inet_ntoa(SubSeq(d.bytes, 3, Len(d.bytes)))
    ELSE IF Len(ip) <= 24 \/ MarkerAt(ip) # {}
    THEN IF Cardinality(MarkerAt(ip)) > 1 THEN Failed("ValueError")
         ELSE LET at == IF MarkerAt(ip) = {} THEN Len(ip) + 1
                        ELSE CHOOSE i \in MarkerAt(ip) : TRUE
                  head == decode_sections(SubSeq(ip, 1, at - 1))
                  tail == decode_sections(SubSeq(ip, at + 1, Len(ip)))
              IN IF head.raised # None THEN Failed(head.raised)
                 ELSE IF tail.raised # None THEN Failed(tail.raised)
                 ELSE LET pad == PackedIPv6Len - Len(head.bytes) - Len(tail.bytes)
                      IN inet_ntop6(head.bytes
                                    \o (IF pad > 0 THEN Zeros(pad) ELSE <<>>)
                                    \o tail.bytes)
    ELSE Returned(NoAddress)


\* Octets around the boundaries of the six-bit groups.
OctetValues == {0, 1, 127, 128, 255}

IPv4Inputs == {IPv4(<<a, b, c, d>>) : a \in OctetValues, b \in OctetValues,
                                      c \in OctetValues, d \in OctetValues}

\* The i-th test group, as two bytes and as its three-character block.
GroupBytes(i) == <<i, 255 - i>>
GroupBlock(i) == SubSeq(b64encode(<<0>> \o GroupBytes(i)), 2, 4)

RECURSIVE GroupsBytes(_, _)
GroupsBytes(from, n) ==
    IF n = 0 THEN <<>> ELSE GroupBytes(from) \o GroupsBytes(from + 1, n - 1)

RECURSIVE GroupsBlocks(_, _)
GroupsBlocks(from, n) ==
    IF n = 0 THEN <<>> ELSE GroupBlock(from) \o GroupsBlocks(from + 1, n - 1)

\* IPv6 addresses with at most one run of zero groups: h non-zero groups, the
\* run, t non-zero groups.
IPv6Inputs ==
    {IPv6(GroupsBytes(1, hl[1]) \o Zeros(PackedIPv6Len - 2 * (hl[1] + hl[2]))
          \o GroupsBytes(hl[1] + 1, hl[2])) :
        hl \in {x \in (0..(PackedIPv6Len \div 2)) \X (0..(PackedIPv6Len \div 2)) :
                    x[1] + x[2] <= PackedIPv6Len \div 2}}

\* Texts a peer can put in the IP field: h blocks, zero to two markers, t
\* blocks and up to two more characters.
MaxBlocks == 9

RawTexts ==
    {GroupsBlocks(1, h) \o m \o GroupsBlocks(h + 1, t) \o e :
        h \in 0..MaxBlocks, t \in 0..MaxBlocks,
        m \in {<<>>, <<Marker>>, <<Marker, Marker>>},
        e \in {<<>>, <<"A">>, <<"A", "A">>}}

InitIp ==
    /\ networkobjects = NoNetworks
    /\ relay = NoRelay
    /\ servers = InitServersWithUsers
    /\ users = InitUsers
    /\ channels = [c \in ChanNames |-> NoChan]
    /\ sent = <<>>
    /\ last = NoLast
    /\ pc = Idle
    /\ protocol = "p10"
    /\ self_uplink = UplinkSID
    /\ sidgen = NoGen
    /\ \/ \E ip \in IPv4Inputs \cup IPv6Inputs :
            fn = [kind |-> "ip", stage |-> "address", ip |-> ip, text |-> <<>>,
                  result |-> Returned(NoAddress)]
       \/ \E text \in RawTexts :
            fn = [kind |-> "ip", stage |-> "text", ip |-> NoAddress, text |-> text,
                  result |-> Returned(NoAddress)]

\* spawnClient encodes the address of the new client.
IpSpawnClient ==
    /\ fn.stage = "address"
    /\ fn' = [fn EXCEPT !.stage = "text", !.text = spawnClient_b64ip(fn.ip)]
    /\ UNCHANGED <<servers, users, channels, sent, last, pc, protocol,
                   self_uplink, sidgen, networkobjects, relay>>

\* handle_nick decodes the IP field of a NICK line.
IpHandleNick ==
    /\ fn.stage = "text"
    /\ fn' = [fn EXCEPT !.stage = "decoded", !.result = decode_p10_ip(fn.text)]
    /\ UNCHANGED <<servers, users, channels, sent, last, pc, protocol,
                   self_uplink, sidgen, networkobjects, relay>>

NextIp == IpSpawnClient \/ IpHandleNick

SpecIp == InitIp /\ [][NextIp]_vars

C23_IPv6RoundTrip ==
    (fn.stage = "decoded" /\ fn.ip.version = 6) => fn.result = Returned(fn.ip)

\* The shapes of malformed text: no marker and fewer than eight blocks, more
\* than 24 characters without a marker, a head and a tail of more than sixteen
\* bytes together, a length that is not a multiple of three.
Malformed(text) ==
    LET at == IF MarkerAt(text) = {} THEN Len(text) + 1
              ELSE CHOOSE i \in MarkerAt(text) : TRUE
        headlen == at - 1
        taillen == IF at > Len(text) THEN 0 ELSE Len(text) - at
    IN /\ Cardinality(MarkerAt(text)) <= 1
       /\ Len(text) # 6
       /\ \/ MarkerAt(text) = {} /\ Len(text) < 24
          \/ MarkerAt(text) = {} /\ Len(text) > 24
          \/ MarkerAt(text) # {} /\ 2 * (headlen \div 3) + 2 * (taillen \div 3) > PackedIPv6Len
          \/ headlen % 3 # 0
          \/ taillen % 3 # 0

\* C24: decode_p10_ip fails with an error on every malformed or truncated
\* text, and returns neither an address nor an empty result for it.
C24_DecodeRejectsMalformed ==
    (fn.stage = "decoded" /\ fn.ip.version = 0 /\ Malformed(fn.text)) =>
        fn.result.raised # None

\* ---------------------------------------------------------------------------
\* The channel snapshot in the events of BURST and CLEARMODE
\* ---------------------------------------------------------------------------

\* existing: the channel's modes and its prefix modes as (char, data) pairs.
ExistingModes(c) ==
    c.modes \cup {m \in PrefixChars \X UIDs : m[2] \in c.prefixmodes[m[1]]}

\* A pass over the channel's modes that leaves the prefix modes out.
ClearedModes_noprefix(c, modes) ==
    {<<"-", m[1], IF m[1] \in ListChars THEN m[2] ELSE None>> :
        m \in {x \in c.modes : x[1] \in modes}}

\* changedmodes: every existing mode whose character is named in the line;
\* list modes and prefix modes keep their data (no mode of the model always
\* takes a parameter when unset), every other mode is unset without argument.
ClearedModes(c, modes) ==
    {<<"-", m[1], IF m[1] \in ListChars \cup PrefixChars THEN m[2] ELSE None>> :
        m \in {x \in ExistingModes(c) : x[1] \in modes}}

\* handle_clearmode with the copy of the channel taken after the modes are
\* applied.
handle_clearmode_latecopy(st, channel_arg, modes, clock) ==
    LET channel == toLower(channel_arg)
        st0 == [st EXCEPT !.channels = Touch(@, channel, clock)]
        changedmodes == ClearedModes(st0.channels[channel], modes)
        st1 == [st0 EXCEPT !.channels[channel] = applyModes(@, SetToSeq(changedmodes))]
    IN [st |-> st1,
        event |-> [none |-> FALSE, target |-> channel, modes |-> changedmodes,
                   channeldata |-> deepcopy(st1.channels[channel])]]

\* handle_clearmode(numeric, 'CLEARMODE', args): args are the channel and the
\* mode characters to clear.
handle_clearmode(st, channel_arg, modes, clock) ==
    LET channel == toLower(channel_arg)
        st0 == [st EXCEPT !.channels = Touch(@, channel, clock)]
        existing == ExistingModes(st0.channels[channel])
        oldobj == deepcopy(st0.channels[channel])
        changedmodes == ClearedModes(st0.channels[channel], modes)
    IN [st |-> [st0 EXCEPT !.channels[channel] = applyModes(@, SetToSeq(changedmodes))],
        event |-> [none |-> FALSE, target |-> channel, modes |-> changedmodes,
                   channeldata |-> oldobj]]

\* The mode characters a CLEARMODE line names.
ClearInputs == {{"o"}, {"n"}, {"b", "v"}, {"o", "v", "n", "b"}}

SnapHandleBurst ==
    \E b \in BurstInputs : \E clock \in Clocks(b.chan) :
        /\ Len(b.userlist) <= 1
        /\ Commit(handle_burst(Store, b, clock).st)
        /\ last' = [NoLast EXCEPT
                       !.op = "BURST", !.chan = toLower(b.chan),
                       !.bare = Len(BurstArgs(b)) < 3,
                       !.event = handle_burst(Store, b, clock).event,
                       !.prev = Touch(channels, toLower(b.chan), clock)[toLower(b.chan)]]
        /\ UNCHANGED <<pc, fn, protocol, self_uplink, sidgen, networkobjects, relay>>

SnapHandleClearmode ==
    \E channel \in {ChanA, ChanUpper}, modes \in ClearInputs :
      \E clock \in Clocks(channel) :
        /\ Commit(handle_clearmode(Store, channel, modes, clock).st)
        /\ last' = [NoLast EXCEPT
                       !.op = "CLEARMODE", !.chan = toLower(channel),
                       !.arg = modes,
                       !.event = handle_clearmode(Store, channel, modes, clock).event,
                       !.prev = Touch(channels, toLower(channel), clock)[toLower(channel)]]
        /\ UNCHANGED <<pc, fn, protocol, self_uplink, sidgen, networkobjects, relay>>

NextSnap == SnapHandleBurst \/ SnapHandleClearmode

SpecSnap == Init /\ [][NextSnap]_vars

\* C25: the 'channeldata' of the event returned by handle_burst and by
\* handle_clearmode is the channel as it was read immediately before the
\* command was applied (members, modes, prefix modes, TS; a channel the table
\* did not hold is read as a fresh, empty one), whatever the command then
\* changes on the live channel.
C25_ChanneldataIsStateBefore ==
    (last.op \in {"BURST", "CLEARMODE"} /\ ~last.bare) =>
        /\ last.event.channeldata.users = last.prev.users
        /\ last.event.channeldata.modes = last.prev.modes
        /\ last.event.channeldata.prefixmodes = last.prev.prefixmodes
        /\ last.event.channeldata.ts = last.prev.ts

\* A CLEARMODE took the op from a member and a mode from the channel; the
\* snapshot still has both.
C25_Witness ==
    /\ last.op = "CLEARMODE"
    /\ last.event.channeldata.prefixmodes["o"] # {}
    /\ last.event.channeldata.modes # {}
    /\ channels[last.chan].prefixmodes["o"] = {}
    /\ channels[last.chan].modes = {}
    /\ last.event.channeldata = last.prev

\* A BURST with a lower TS reset the channel and added a member; the snapshot
\* has the TS and the members of before.
C25_WitnessBurst ==
    /\ last.op = "BURST" /\ ~last.bare
    /\ channels[last.chan].ts < last.event.channeldata.ts
    /\ channels[last.chan].users # last.event.channeldata.users
    /\ last.event.channeldata = last.prev

\* ---------------------------------------------------------------------------
\* The relay plugin: normalizeNick
\* ---------------------------------------------------------------------------

\* Nicks and network names are sequences of one-character strings.
Replace(text, old, new) ==
    [i \in 1..Len(text) |-> IF text[i] = old THEN new ELSE text[i]]

\* text[:n], with a negative n counted from the end.
Cut(text, n) ==
    IF n >= 0 THEN SubSeq(text, 1, Min(n, Len(text)))
    ELSE SubSeq(text, 1, IF Len(text) + n > 0 THEN Len(text) + n ELSE 0)

StartsWithDigit(text) ==
    /\ Len(text) > 0
    /\ \E i \in 1..Len(Digits) : Digits[i] = text[1]

\* utils.nickToUid(irc, nick): whether a user of the network holds the nick.
nickToUid(irc, nick) == nick \in irc.nicks

\* The nick built from the separator, before the network is asked for it.
TaggedNick(irc, netname, orig_nick, sep) ==
    LET charybdis == irc.protoname = "charybdis"
        separator == IF charybdis THEN Replace(sep, "/", "|") ELSE sep
        replaced == IF charybdis THEN Replace(orig_nick, "/", "|") ELSE orig_nick
        prefixed == IF StartsWithDigit(replaced) THEN <<"_">> \o replaced ELSE replaced
        suffix == separator \o netname
        allowedlength == irc.maxnicklen - Len(suffix)
    IN [separator |-> separator,
        nick |-> Cut(Cut(prefixed, irc.maxnicklen), allowedlength) \o suffix]

\* normalizeNick with the separator given: a held nick is tried again with
\* the separator one character longer, and the final length is asserted.
RECURSIVE normalizeNick_sep(_, _, _, _)
normalizeNick_sep(irc, netname, orig_nick, sep) ==
    LET t == TaggedNick(irc, netname, orig_nick, sep)
        new_sep == t.separator \o <<t.separator[Len(t.separator)]>>
        final == IF nickToUid(irc, t.nick)
                 THEN normalizeNick_sep(irc, netname, orig_nick, new_sep)
                 ELSE [raised |-> None, nick |-> t.nick]
    IN IF final.raised # None THEN final
       ELSE IF Len(final.nick) > irc.maxnicklen
       THEN [raised |-> "AssertionError", nick |-> <<>>]
       ELSE final

\* normalizeNick without the loop that asks the network for the nick.
normalizeNick_once(irc, netname, nick) ==
    LET t == TaggedNick(irc, netname, nick, <<"/">>)
    IN IF Len(t.nick) > irc.maxnicklen
       THEN [raised |-> "AssertionError", nick |-> <<>>]
       ELSE [raised |-> None, nick |-> t.nick]

\* normalizeNick(irc, netname, nick, separator="/")
normalizeNick(irc, netname, nick) == normalizeNick_sep(irc, netname, nick, <<"/">>)

MaxNickLen == 11

NickInputs ==
    {<<"1", "2", "3", "a", "b", "c">>, <<"a", "b", "c">>, <<"a", "/", "b">>,
     <<"a", "b", "c", "d", "e", "f", "g", "h", "i", "j">>}

NetNames == {<<"n", "e", "t">>, <<"o">>}

ProtoNames == {"charybdis", "inspircd"}

\* The nicks of at most MaxNickLen characters normalizeNick tries first.
TriedNicks(protoname, maxnicklen, netname, nick) ==
    {t \in {TaggedNick([protoname |-> protoname, maxnicklen |-> maxnicklen],
                       netname, nick, sep).nick :
                sep \in {<<"/">>, <<"/", "/">>, <<"/", "/", "/">>}} :
        Len(t) <= maxnicklen}

InitNick ==
    /\ networkobjects = NoNetworks
    /\ relay = NoRelay
    /\ servers = InitServersWithUsers
    /\ users = InitUsers
    /\ channels = [c \in ChanNames |-> NoChan]
    /\ sent = <<>>
    /\ last = NoLast
    /\ pc = Idle
    /\ protocol = "p10"
    /\ self_uplink = UplinkSID
    /\ sidgen = NoGen
    /\ \E protoname \in ProtoNames, maxnicklen \in 4..MaxNickLen,
          netname \in NetNames, nick \in NickInputs :
         \E held \in SUBSET TriedNicks(protoname, maxnicklen, netname, nick) :
            fn = [kind |-> "nick", stage |-> "input",
                  irc |-> [protoname |-> protoname, maxnicklen |-> maxnicklen,
                           nicks |-> held],
                  netname |-> netname, nick |-> nick,
                  result |-> [raised |-> None, nick |-> <<>>]]

NickNormalizeNick ==
    /\ fn.stage = "input"
    /\ fn' = [fn EXCEPT !.stage = "done",
                        !.result = normalizeNick(fn.irc, fn.netname, fn.nick)]
    /\ UNCHANGED <<servers, users, channels, sent, last, pc, protocol,
                   self_uplink, sidgen, networkobjects, relay>>

NextNick == NickNormalizeNick

SpecNick == InitNick /\ [][NextNick]_vars

EndsWithTag(nick, netname) ==
    /\ Len(nick) > Len(netname)
    /\ SubSeq(nick, Len(nick) - Len(netname) + 1, Len(nick)) = netname
    /\ nick[Len(nick) - Len(netname)] \in {"/", "|"}

\* C27: the nick normalizeNick returns is held by no user of the target
\* network and is not longer than the network's max nick length; for a nick
\* that starts with a digit the result starts with a character that is not a
\* digit and ends with the separator and the origin network's name.
C27_NormalizedNickFreeAndShort ==
    (fn.stage = "done" /\ fn.result.raised = None) =>
        /\ fn.result.nick \notin fn.irc.nicks
        /\ Len(fn.result.nick) <= fn.irc.maxnicklen
        /\ StartsWithDigit(fn.nick) =>
             /\ ~StartsWithDigit(fn.result.nick)
             /\ EndsWithTag(fn.result.nick, fn.netname)

\* 123abc, with _123abc/net held on the target network, came back cut by one
\* character and with a longer separator.
C27_Witness ==
    /\ fn.stage = "done"
    /\ fn.nick = <<"1", "2", "3", "a", "b", "c">>
    /\ fn.irc.nicks = {<<"_", "1", "2", "3", "a", "b", "c", "/", "n", "e", "t">>}
    /\ fn.result = [raised |-> None,
                    nick |-> <<"_", "1", "2", "3", "a", "b", "/", "/", "n", "e", "t">>]

\* ---------------------------------------------------------------------------
\* The relay plugin: handle_join on the networks of utils.networkobjects
\* ---------------------------------------------------------------------------

Nets == {"n1", "n2", "n3"}

NetName(n) == <<"n", IF n = "n1" THEN "1" ELSE IF n = "n2" THEN "2" ELSE "3">>

\* The UIDs of a network: the PyLink pseudoclient, a user of the network, and
\* the clients spawnClient creates.
PseudoUID == "P"
LocalUID == "L"
SpawnUIDs == <<"M1", "M2">>
RelayUIDs == {PseudoUID, LocalUID} \cup {SpawnUIDs[i] : i \in 1..Len(SpawnUIDs)}

RelayChans == {"#chat", "#other"}

\* An IrcUser has no attribute 'remote' until the relay sets it: None.
NoRelayUser == [exists |-> FALSE, nick |-> <<>>, remote |-> None]

\* The view of a network normalizeNick reads.
NickView(net) ==
    [protoname |-> net.protoname, maxnicklen |-> net.maxnicklen,
     nicks |-> {net.users[u].nick : u \in {x \in RelayUIDs : net.users[x].exists}}]

\* findRelay(chanpair): the name of the relay the channel belongs to, or None.
findRelay(db, chanpair) ==
    IF chanpair \in DOMAIN db THEN chanpair
    ELSE IF \E name \in DOMAIN db : chanpair \in db[name].links
    THEN CHOOSE name \in DOMAIN db : chanpair \in db[name].links
    ELSE <<None, None>>

\* proto.spawnClient(remoteirc, nick, ...): a new client of the network, with
\* the next free UID; the outbound operation of that network.  A network has
\* Len(SpawnUIDs) UIDs for such clients: with none left the result names no
\* UID.
relay_spawnClient(net, nick) ==
    LET free == {i \in 1..Len(SpawnUIDs) : ~net.users[SpawnUIDs[i]].exists}
        uid == SpawnUIDs[CHOOSE i \in free : \A j \in free : i <= j]
    IN IF free = {} THEN [net |-> net, uid |-> None]
       ELSE [net |-> [net EXCEPT !.users[uid] = [exists |-> TRUE, nick |-> nick,
                                                 remote |-> None]],
             uid |-> uid]

\* proto.joinClient(remoteirc, u, channel): the outbound operation of that
\* network.
relay_joinClient(net, uid, channel) ==
    [net EXCEPT !.channels[channel] = @ \cup {uid}]

\* What handle_join did to a network: the operation, and whether it went
\* through the network's protocol module or wrote to the entity itself.
Effect(op, net, uid, direct) ==
    [op |-> op, net |-> net, uid |-> uid, direct |-> direct]

\* The test at the head of the loop over users, without the look at .remote.
SkipUser_pseudoonly(net, user) == user = net.pseudoclient

\* The users handle_join passes over: relayed clients and the pseudoclient.
SkipUser(net, user) ==
    \/ net.users[user].remote # None
    \/ user = net.pseudoclient

\* The body of the loop over utils.networkobjects for one user and one
\* network.
relay_join_one(acc, irc, user, name, channel) ==
    LET remoteirc == acc.nets[name]
        userobj == acc.nets[irc].users[user]
        n == normalizeNick(NickView(remoteirc), NetName(irc), userobj.nick)
        known == acc.relayusers[<<irc, user>>][name]
    IN IF n.raised # None THEN [acc EXCEPT !.raised = n.raised]
       ELSE IF name = irc THEN acc
       ELSE IF known = None /\ relay_spawnClient(remoteirc, n.nick).uid = None
       THEN [acc EXCEPT !.raised = "NoFreeUID"]
       ELSE LET spawned == relay_spawnClient(remoteirc, n.nick)
                u == IF known = None THEN spawned.uid ELSE known
                net1 == IF known = None
                        THEN [spawned.net EXCEPT !.users[u].remote = irc]
                        ELSE remoteirc
                net2 == [net1 EXCEPT !.users[u].remote = irc]
            IN [acc EXCEPT
                   !.nets[name] = relay_joinClient(net2, u, channel),
                   !.relayusers[<<irc, user>>][name] = u,
                   !.effects = @ \o (IF known = None
                                     THEN <<Effect("spawnClient", name, u, FALSE),
                                            Effect("remote", name, u, TRUE)>>
                                     ELSE <<>>)
                                 \o <<Effect("remote", name, u, TRUE),
                                      Effect("joinClient", name, u, FALSE)>>]

RECURSIVE relay_join_nets(_, _, _, _, _)
relay_join_nets(acc, irc, user, names, channel) ==
    IF names = <<>> \/ acc.raised # None THEN acc
    ELSE relay_join_nets(relay_join_one(acc, irc, user, Head(names), channel),
                         irc, user, Tail(names), channel)

RECURSIVE relay_join_users(_, _, _, _)
relay_join_users(acc, irc, userseq, channel) ==
    IF userseq = <<>> \/ acc.raised # None THEN acc
    ELSE LET user == Head(userseq)
         IN IF SkipUser(acc.nets[irc], user)
            THEN relay_join_users(acc, irc, Tail(userseq), channel)
            ELSE relay_join_users(
                     relay_join_nets(acc, irc, user, SetToSeq(DOMAIN acc.nets), channel),
                     irc, Tail(userseq), channel)

\* relay.handle_join(irc, numeric, 'JOIN', args): args carry the channel and
\* the users of the JOIN.
relay_handle_join(nets, rel, irc, args) ==
    LET acc0 == [nets |-> nets, relayusers |-> rel.relayusers, effects |-> <<>>,
                 raised |-> None]
    IN IF findRelay(rel.db, <<irc, args.channel>>) = <<None, None>> THEN acc0
       ELSE relay_join_users(acc0, irc,
                SetToSeq(args.users \cup nets[irc].channels[args.channel]),
                args.channel)

\* The links database: "#chat" of n1 is shared with n2 and n3.
RelayDB ==
    [name \in {<<"n1", "#chat">>} |->
        [links |-> {<<"n2", "#chat">>, <<"n3", "#chat">>}]]

NoRelayUsers == [k \in Nets \X RelayUIDs |-> [n \in Nets |-> None]]

\* The nick of the user of n2: its own, or the nick the relay would give to
\* the user of n1.
N2Nicks == {<<"b", "o", "b">>, <<"a", "b", "c", "/", "n", "1">>}

RelayNet(n, nick, maxnicklen) ==
    [name |-> n, protoname |-> "inspircd", maxnicklen |-> maxnicklen,
     pseudoclient |-> PseudoUID,
     users |-> [u \in RelayUIDs |->
                  IF u = PseudoUID
                  THEN [exists |-> TRUE, nick |-> <<"p", "y">>, remote |-> None]
                  ELSE IF u = LocalUID
                  THEN [exists |-> TRUE, nick |-> nick, remote |-> None]
                  ELSE NoRelayUser],
     channels |-> [c \in RelayChans |-> {}]]

\* The max nick length of the networks: "abc/n1" fits, "abc//n1" is cut.
RelayNickLen == 6

InitRelay ==
    /\ \E nick2 \in N2Nicks :
         networkobjects =
             [n \in Nets |->
                 RelayNet(n, IF n = "n2" THEN nick2 ELSE <<"a", "b", "c">>,
                          RelayNickLen)]
    /\ relay = [kind |-> "relay", relayusers |-> NoRelayUsers, db |-> RelayDB]
    /\ servers = InitServersWithUsers
    /\ users = InitUsers
    /\ channels = [c \in ChanNames |-> NoChan]
    /\ sent = <<>>
    /\ last = NoLast
    /\ pc = Idle
    /\ fn = NoFn
    /\ protocol = "p10"
    /\ self_uplink = UplinkSID
    /\ sidgen = NoGen

Existing(net) == {u \in RelayUIDs : net.users[u].exists}

\* A JOIN of a user of the network irc: the protocol module puts the user on
\* the channel, then the JOIN hook runs relay.handle_join.
RelayHandleJoin ==
    \E irc \in Nets, channel \in RelayChans :
      \E joined \in {{u} : u \in Existing(networkobjects[irc])} :
        LET nets0 == [networkobjects EXCEPT ![irc].channels[channel] = @ \cup joined]
            r == relay_handle_join(nets0, relay, irc,
                                   [channel |-> channel, users |-> joined])
        IN /\ channel # "#chat" => joined = {LocalUID}
           /\ r.raised # "NoFreeUID"
           /\ networkobjects' = r.nets
           /\ relay' = [relay EXCEPT !.relayusers = r.relayusers]
           /\ last' = [NoLast EXCEPT !.op = "relay.handle_join", !.arg = irc,
                          !.chan = channel, !.event = r.effects,
                          !.raised = r.raised # None]
           /\ UNCHANGED <<servers, users, channels, sent, pc, fn, protocol,
                          self_uplink, sidgen>>

NextRelay == RelayHandleJoin

SpecRelay == InitRelay /\ [][NextRelay]_vars

\* The clients the relay spawned on network r, with the network they mirror.
Mirrors(r) ==
    {<<relay.relayusers[k][r], k[1]>> :
        k \in {x \in Nets \X RelayUIDs : relay.relayusers[x][r] # None}}

\* C26: a client the relay spawned carries the name of its origin network
\* from before its first join on, and a client that carries the mark has no
\* mirror on any network.
C26_MirrorsMarkedAndNeverMirrored ==
    /\ \A r \in Nets : \A m \in Mirrors(r) :
          networkobjects[r].users[m[1]].remote = m[2]
    /\ \A k \in Nets \X RelayUIDs :
          networkobjects[k[1]].users[k[2]].remote # None =>
              \A r \in Nets : relay.relayusers[k][r] = None
    /\ last.op = "relay.handle_join" =>
          \A i \in 1..Len(last.event) :
              last.event[i].op = "joinClient" =>
                  \E j \in 1..(i - 1) :
                      /\ last.event[j].op = "remote"
                      /\ last.event[j].net = last.event[i].net
                      /\ last.event[j].uid = last.event[i].uid

\* A JOIN on n2 that named a client the relay had spawned there for the user
\* of n1: the client is on the channel, marked, and has no mirror.
C26_Witness ==
    /\ last.op = "relay.handle_join"
    /\ last.arg = "n2"
    /\ relay.relayusers[<<"n1", LocalUID>>]["n2"] = "M1"
    /\ "M1" \in networkobjects["n2"].channels["#chat"]
    /\ networkobjects["n2"].users["M1"].remote = "n1"
    /\ \A r \in Nets : relay.relayusers[<<"n2", "M1">>][r] = None
    /\ relay.relayusers[<<"n2", LocalUID>>]["n1"] # None

\* C29: handle_join changes the users, channels and servers of a network
\* other than the one whose JOIN it handles only through that network's
\* outbound operations.
C29_ForeignWritesGoThroughProto ==
    last.op = "relay.handle_join" =>
        \A i \in 1..Len(last.event) :
            last.event[i].net # last.arg => ~last.event[i].direct

\* ---------------------------------------------------------------------------
\* The relay plugin: the periodic export of the links database
\* ---------------------------------------------------------------------------

\* scheduler.enter(30, 1, exportDB, ...): seconds between two exports.
ExportInterval == 30

\* The exports a behaviour is followed for.
MaxExports == 8

\* main(): the database is loaded, the first export is queued and the thread
\* that runs scheduler.run is started.
relay_main(db) ==
    [kind |-> "export", db |-> db, now |-> 0, queue |-> {ExportInterval},
     thread |-> "running", attempts |-> 0, exports |-> 0, failed |-> FALSE]

\* exportDB(scheduler): the next run is queued first, then the file is
\* written; ok tells whether open() and pickle.dump() went through.  An
\* exception leaves exportDB and scheduler.run, which ends the thread.
exportDB(rel, ok) ==
    LET queued == [rel EXCEPT !.queue = @ \cup {rel.now + ExportInterval},
                              !.attempts = @ + 1]
    IN IF ok THEN [queued EXCEPT !.exports = @ + 1, !.failed = FALSE]
       ELSE [queued EXCEPT !.failed = TRUE, !.thread = "dead"]

NextEvent(rel) == CHOOSE t \in rel.queue : \A o \in rel.queue : t <= o

ExportChanpairs == {<<"n1", "#chat">>, <<"n2", "#chat">>}

InitExport ==
    /\ relay = relay_main(RelayDB)
    /\ networkobjects =
           [n \in Nets |-> RelayNet(n, <<"a", "b", "c">>, RelayNickLen)]
    /\ servers = InitServersWithUsers
    /\ users = InitUsers
    /\ channels = [c \in ChanNames |-> NoChan]
    /\ sent = <<>>
    /\ last = NoLast
    /\ pc = Idle
    /\ fn = NoFn
    /\ protocol = "p10"
    /\ self_uplink = UplinkSID
    /\ sidgen = NoGen

\* scheduler.run: the next event is not due yet, delayfunc sleeps until it is.
ExportSleep ==
    /\ relay.thread = "running"
    /\ relay.queue # {}
    /\ NextEvent(relay) > relay.now
    /\ relay' = [relay EXCEPT !.now = NextEvent(relay)]
    /\ UNCHANGED <<servers, users, channels, sent, last, pc, fn, protocol,
                   self_uplink, sidgen, networkobjects>>

\* scheduler.run: the next event is due, it is taken from the queue and run.
ExportRun ==
    /\ relay.thread = "running"
    /\ relay.queue # {}
    /\ NextEvent(relay) <= relay.now
    /\ relay.attempts < MaxExports
    /\ \E ok \in BOOLEAN :
         relay' = exportDB([relay EXCEPT !.queue = @ \ {NextEvent(relay)}], ok)
    /\ UNCHANGED <<servers, users, channels, sent, last, pc, fn, protocol,
                   self_uplink, sidgen, networkobjects>>

\* The 'create' command of an oper who is on the channel: a new relay, and
\* the pseudoclient joins the channel.
ExportCreate ==
    \E pair \in ExportChanpairs :
        /\ pair \notin DOMAIN relay.db
        /\ relay' = [relay EXCEPT !.db =
                        [k \in DOMAIN relay.db \cup {pair} |->
                            IF k = pair THEN [links |-> {}] ELSE relay.db[k]]]
        /\ networkobjects' =
               [networkobjects EXCEPT ![pair[1]] =
                   relay_joinClient(@, @.pseudoclient, pair[2])]
        /\ UNCHANGED <<servers, users, channels, sent, last, pc, fn, protocol,
                       self_uplink, sidgen>>

\* The 'destroy' command of an oper: the relay is dropped, and the
\* pseudoclient leaves the channel.
ExportDestroy ==
    \E pair \in ExportChanpairs :
        /\ pair \in DOMAIN relay.db
        /\ relay' = [relay EXCEPT !.db = [k \in DOMAIN relay.db \ {pair} |-> relay.db[k]]]
        /\ networkobjects' =
               [networkobjects EXCEPT ![pair[1]].channels[pair[2]] =
                   @ \ {networkobjects[pair[1]].pseudoclient}]
        /\ UNCHANGED <<servers, users, channels, sent, last, pc, fn, protocol,
                       self_uplink, sidgen>>

NextExport == ExportSleep \/ ExportRun \/ ExportCreate \/ ExportDestroy

\* The scheduler thread runs for as long as it is alive.
SpecExport ==
    /\ InitExport
    /\ [][NextExport]_vars
    /\ WF_vars(ExportSleep)
    /\ WF_vars(ExportRun)

\* C28: after an export that failed, the next export is attempted, however
\* many exports failed before.
C28_ExportAttemptedAfterFailure ==
    \A n \in 1..(MaxExports - 1) :
        (relay.attempts = n /\ relay.failed) ~> (relay.attempts = n + 1)

\* ---------------------------------------------------------------------------
\* The lines of a peer before and after its PASS
\* ---------------------------------------------------------------------------

\* last.prev tells whether a PASS with the configured recvpass was handled
\* earlier on the connection.
InitAuth ==
    /\ networkobjects = NoNetworks
    /\ relay = NoRelay
    /\ servers = [s \in SIDs |-> IF s = OwnSID
                                 THEN [IrcServer(None, TRUE) EXCEPT !.users = {U1}]
                                 ELSE NoServer]
    /\ users = [u \in UIDs |-> IF u = U1 THEN InitUsers[u] ELSE NoUser]
    /\ channels = [c \in ChanNames |-> NoChan]
    /\ sent = <<>>
    /\ last = [NoLast EXCEPT !.prev = FALSE]
    /\ pc = Idle
    /\ fn = NoFn
    /\ protocol = "p10"
    /\ self_uplink = None
    /\ sidgen = NoGen

\* An exception ends the connection: no line is handled after it.
AuthFatal == last.raised

PassSeen == last.prev

AuthHandlePass ==
    \E password \in Passwords :
        /\ ~AuthFatal
        /\ Commit(handle_pass(Store, password))
        /\ last' = [NoLast EXCEPT !.op = "PASS", !.arg = password,
                                  !.raised = handle_pass(Store, password).raised,
                                  !.prev = PassSeen \/ password = RecvPass]
        /\ UNCHANGED <<pc, fn, protocol, self_uplink, sidgen, networkobjects, relay>>

AuthHandleServer ==
    \E sid \in {UplinkSID, NewSID} :
        \E source \in (IF self_uplink = None THEN {None} ELSE RemoteServers) :
            /\ ~AuthFatal
            /\ ~servers[sid].exists
            /\ Commit(handle_server(Store, self_uplink, source, sid).st)
            /\ self_uplink' = handle_server(Store, self_uplink, source, sid).uplink
            /\ last' = [NoLast EXCEPT !.op = "SERVER", !.arg = sid,
                                      !.prev = PassSeen]
            /\ UNCHANGED <<pc, fn, protocol, sidgen, networkobjects, relay>>

AuthHandleNick ==
    \E uid \in {R1}, ts \in TSRange :
        /\ ~AuthFatal
        /\ ~users[uid].exists
        /\ Commit(handle_nick(Store, UIDServer(uid), TRUE, NickOf(uid), ts, uid))
        /\ last' = [NoLast EXCEPT
                       !.op = "NICK", !.arg = uid, !.prev = PassSeen,
                       !.raised = handle_nick(Store, UIDServer(uid), TRUE,
                                              NickOf(uid), ts, uid).raised]
        /\ UNCHANGED <<pc, fn, protocol, self_uplink, sidgen, networkobjects, relay>>

AuthHandleBurst ==
    \E b \in BurstInputs : \E clock \in Clocks(b.chan) :
        /\ ~AuthFatal
        /\ Len(b.userlist) <= 1
        /\ Commit(handle_burst(Store, b, clock).st)
        /\ last' = [NoLast EXCEPT !.op = "BURST", !.chan = b.chan, !.ts = b.ts,
                                  !.prev = PassSeen]
        /\ UNCHANGED <<pc, fn, protocol, self_uplink, sidgen, networkobjects, relay>>

NextAuth == AuthHandlePass \/ AuthHandleServer \/ AuthHandleNick \/ AuthHandleBurst

SpecAuth == InitAuth /\ [][NextAuth]_vars

\* C30: a SERVER, NICK or BURST line handled before any PASS with the
\* configured recvpass changes no server, user or channel and does not set
\* the uplink.
C30_NoChangeBeforeValidPass ==
    [][(~PassSeen /\ last'.op \in {"SERVER", "NICK", "BURST"}) =>
          UNCHANGED <<servers, users, channels, self_uplink>>]_vars

\* ---------------------------------------------------------------------------
\* The sources of the lines sent
\* ---------------------------------------------------------------------------

\* C31: every line sent with a source has as source a client or a server of
\* our own; an incoming KICK of a remote user sends no line with that user as
\* source.
C31_SentSourcesAreInternal ==
    \A i \in 1..Len(sent) :
        sent[i].source # None => IsActor(Store, sent[i].source)

\* ---------------------------------------------------------------------------
\* SERVER lines for a SID the server table already holds
\* ---------------------------------------------------------------------------

\* A server behind the uplink introduces a server, whatever the table holds
\* under its SID.
DupHandleServer ==
    \E sid \in SIDs :
        /\ Commit(handle_server(Store, self_uplink, UplinkSID, sid).st)
        /\ self_uplink' = handle_server(Store, self_uplink, UplinkSID, sid).uplink
        /\ last' = [NoLast EXCEPT !.op = "SERVER", !.arg = sid]
        /\ UNCHANGED <<pc, fn, protocol, sidgen, networkobjects, relay>>

DupSpawnServer ==
    \E sid \in {NewSID} :
        /\ Commit(stmts_exec(Store, p10_spawnServer(Store, "new.server", sid, OwnSID),
                             MaxTS))
        /\ last' = [NoLast EXCEPT
                       !.op = "spawnServer", !.arg = sid,
                       !.raised = RaisedIn(p10_spawnServer(Store, "new.server",
                                                           sid, OwnSID))]
        /\ UNCHANGED <<pc, fn, protocol, self_uplink, sidgen, networkobjects, relay>>

DupHandleNick ==
    \E uid \in {R1, R2}, ts \in TSRange :
        /\ InServers(Store, UIDServer(uid))
        /\ Commit(handle_nick(Store, UIDServer(uid), TRUE, NickOf(uid), ts, uid))
        /\ last' = [NoLast EXCEPT !.op = "NICK", !.arg = uid]
        /\ UNCHANGED <<pc, fn, protocol, self_uplink, sidgen, networkobjects, relay>>

NextDup == DupHandleServer \/ DupSpawnServer \/ DupHandleNick

SpecDup == Init /\ [][NextDup]_vars

\* C32: a SERVER line whose SID is a key of the server table leaves the
\* entry as it was: uplink, internal flag and user set.
C32_ServerNeverReplacesEntry ==
    [][(last'.op = "SERVER" /\ servers[last'.arg].exists) =>
          servers'[last'.arg] = servers[last'.arg]]_vars

\* ---------------------------------------------------------------------------
\* Membership, recorded at the channel and at the user
\* ---------------------------------------------------------------------------

MemChans == {ChanA, ChanB}

MemBursts ==
    {b \in BurstInputs : b.ts = MaxTS /\ b.bans = {} /\ Len(b.userlist) <= 1}

\* The user lists of the sjoin calls: our client, a user of the uplink, and a
\* UID the user table does not hold.
MemSjoinUsers ==
    {<<[prefixes |-> <<>>, uid |-> u]>> : u \in {U1, R1, GhostUID}}
    \cup {<<[prefixes |-> <<>>, uid |-> U1], [prefixes |-> <<"o">>, uid |-> u]>> :
             u \in {R1, GhostUID}}

MemDone(op, stmts) ==
    /\ Commit(stmts_exec(Store, stmts, MaxTS))
    /\ last' = [NoLast EXCEPT !.op = op, !.raised = RaisedIn(stmts)]
    /\ UNCHANGED <<pc, fn, protocol, self_uplink, sidgen, networkobjects, relay>>

MemHandled(op, st) ==
    /\ Commit(st)
    /\ last' = [NoLast EXCEPT !.op = op]
    /\ UNCHANGED <<pc, fn, protocol, self_uplink, sidgen, networkobjects, relay>>

MemHandleBurst ==
    \E b \in MemBursts : MemHandled("BURST", handle_burst(Store, b, MaxTS).st)

MemHandleJoin ==
    \E source \in {R1}, command \in {"JOIN", "CREATE"}, target \in MemChans \cup {"0"} :
        /\ target = "0" => command = "JOIN"
        /\ MemHandled(IF target = "0" THEN "JOIN 0" ELSE command,
                      handle_join(Store, source, command, target, MaxTS, MaxTS))

MemHandlePart ==
    \E source \in {U1, R1}, channel \in MemChans :
        MemHandled("PART", handle_part(Store, source, channel, MaxTS, "p10"))

MemHandleKick ==
    \E kicked \in {U1, R1}, channel \in MemChans :
        MemHandled("KICK", p10_handle_kick(Store, R1, channel, kicked, MaxTS))

MemJoin ==
    \E client \in {U1, R1}, channel \in MemChans :
        MemDone("join", p10_join(Store, client, channel, MaxTS))

MemPart ==
    \E client \in {U1, R1}, channel \in MemChans :
        MemDone("part", p10_part(Store, client, channel))

MemKick ==
    \E numeric \in {U1, OwnSID}, target \in {U1, R1, GhostUID}, channel \in MemChans :
        MemDone("kick", p10_kick(Store, numeric, channel, target, MaxTS))

MemSjoin ==
    \E users_in \in MemSjoinUsers, channel \in MemChans :
        MemDone("sjoin", p10_sjoin(Store, OwnSID, channel, users_in, MaxTS, {}, MaxTS))

NextMember ==
    \/ MemHandleBurst \/ MemHandleJoin \/ MemHandlePart \/ MemHandleKick
    \/ MemJoin \/ MemPart \/ MemKick \/ MemSjoin

SpecMember == Init /\ [][NextMember]_vars

IsMember(u, c) == channels[c].exists /\ u \in channels[c].users

HasJoined(u, c) == users[u].exists /\ c \in users[u].channels

\* C33: a UID is in the member set of a channel if and only if the channel's
\* name is in the user's set of joined channels.
C33_MembershipBothWays ==
    \A u \in UIDs, c \in ChanNames : IsMember(u, c) <=> HasJoined(u, c)


\* C34: after the JOIN 0 of a user (R1 in this specification) the store is
\* as after a PART from each of its channels: the user is in no member set,
\* holds no prefix mode, and no channel is left empty without being permanent.
C34_JoinZeroIsPartFromAll ==
    last.op = "JOIN 0" =>
        \A c \in ChanNames :
            channels[c].exists =>
                /\ R1 \notin channels[c].users
                /\ \A p \in PrefixChars : R1 \notin channels[c].prefixmodes[p]
                /\ channels[c].users # {} \/ Permanent \in channels[c].modes


\* ---------------------------------------------------------------------------
\* nick(): the timestamp on the line and the timestamp stored
\* ---------------------------------------------------------------------------

NewNicks == {"newnick", "other", "third"}

\* nick() reads the clock once for the line and once more for the store; the
\* clock never runs backwards between the two reads.
ClockNick ==
    \E numeric \in {U1, U2, R1}, newnick \in NewNicks,
       clock \in TSRange, clock2 \in TSRange :
        /\ clock <= clock2
        /\ LET stmts == IF protocol = "p10"
                        THEN p10_nick(Store, numeric, newnick, clock, clock2)
                        ELSE ts6_nick(Store, numeric, newnick, clock, clock2)
           IN /\ Commit(stmts_exec(Store, stmts, clock2))
              /\ last' = [NoLast EXCEPT !.op = "nick", !.arg = numeric,
                                        !.raised = RaisedIn(stmts)]
        /\ UNCHANGED <<pc, fn, protocol, self_uplink, sidgen, networkobjects, relay>>

\* A user of the uplink changes nick: the line carries the new timestamp.
ClockHandleNick ==
    \E nick \in NewNicks, ts \in TSRange :
        /\ protocol = "p10"
        /\ Commit(handle_nick(Store, R1, FALSE, nick, ts, R1))
        /\ last' = [NoLast EXCEPT !.op = "NICK", !.arg = R1]
        /\ UNCHANGED <<pc, fn, protocol, self_uplink, sidgen, networkobjects, relay>>

NextClock == ClockNick \/ ClockHandleNick

SpecClock == InitOut /\ [][NextClock]_vars

\* C35: after nick() the nick timestamp stored for the user is the timestamp
\* that was sent on the NICK line.
C35_StoredNickTSIsSentTS ==
    (last.op = "nick" /\ ~last.raised) =>
        /\ Len(sent) = 1
        /\ users[last.arg].ts = sent[1].params[2]


\* ---------------------------------------------------------------------------
\* The user list of a BURST line, entry by entry
\* ---------------------------------------------------------------------------

MaxBurstUsers == 3

\* An entry is "UID" or "UID:prefixes"; the prefixes may be the empty string.
PrefixEntries ==
    {[uid |-> u, annotated |-> FALSE, prefixes |-> {}] : u \in BurstUIDs}
    \cup {[uid |-> u, annotated |-> TRUE, prefixes |-> p] :
              u \in BurstUIDs, p \in {{}, {"o"}, {"v"}}}

PrefixUserLists ==
    UNION {[1..n -> PrefixEntries] : n \in 0..MaxBurstUsers}

InitPrefix ==
    /\ networkobjects = NoNetworks
    /\ relay = NoRelay
    /\ servers = InitServersWithUsers
    /\ users = InitUsers
    /\ channels = [c \in ChanNames |-> NoChan]
    /\ sent = <<>>
    /\ last = NoLast
    /\ pc = Idle
    /\ \E userlist \in PrefixUserLists :
           fn = [kind |-> "burst", stage |-> "input",
                 b |-> [chan |-> ChanA, ts |-> MaxTS, modes |-> {},
                        userlist |-> userlist, bans |-> {}]]
    /\ protocol = "p10"
    /\ self_uplink = UplinkSID
    /\ sidgen = NoGen

\* The uplink bursts a channel we have not seen yet.
PrefixHandleBurst ==
    /\ fn.kind = "burst" /\ fn.stage = "input"
    /\ Commit(handle_burst(Store, fn.b, MaxTS).st)
    /\ fn' = [fn EXCEPT !.stage = "done"]
    /\ last' = [NoLast EXCEPT !.op = "BURST", !.chan = fn.b.chan, !.ts = fn.b.ts]
    /\ UNCHANGED <<pc, protocol, self_uplink, sidgen, networkobjects, relay>>

NextPrefix == PrefixHandleBurst

SpecPrefix == InitPrefix /\ [][NextPrefix]_vars

\* C36: in the user list of a BURST an entry without annotation carries the
\* prefix modes of the nearest annotated entry before it, and none when no
\* entry before it is annotated; a UID that is not in the user table is
\* skipped, and the other users of the line are still processed.
C36_PrefixesCarryOverAndUnknownSkipped ==
    (fn.kind = "burst" /\ fn.stage = "done") =>
        LET userlist == fn.b.userlist
            known == {i \in 1..Len(userlist) : InitUsers[userlist[i].uid].exists}
        IN /\ channels[ChanA].users = {userlist[i].uid : i \in known}
           /\ \A p \in PrefixChars :
                  channels[ChanA].prefixmodes[p] =
                      {userlist[i].uid : i \in {j \in known :
                                                  p \in CarriedPrefixes(userlist, j)}}
           /\ \A i \in known : ChanA \in users[userlist[i].uid].channels
           /\ users[GhostUID] = NoUser

\* An unknown UID stands between an annotated entry and a bare one.
C36_Witness ==
    /\ fn.kind = "burst" /\ fn.stage = "done"
    /\ Len(fn.b.userlist) = 3
    /\ fn.b.userlist[1] = [uid |-> U1, annotated |-> FALSE, prefixes |-> {}]
    /\ fn.b.userlist[2] = [uid |-> GhostUID, annotated |-> TRUE, prefixes |-> {"o"}]
    /\ fn.b.userlist[3] = [uid |-> R1, annotated |-> FALSE, prefixes |-> {}]
    /\ channels[ChanA].users = {U1, R1}
    /\ channels[ChanA].prefixmodes["o"] = {R1}


\* ---------------------------------------------------------------------------
\* kick() and mode() of a client that is not op
\* ---------------------------------------------------------------------------

BounceFlags == <<"c", "d", "f", "g", "i", "j", "k", "l", "m", "n", "p", "r">>

\* One change more than mode() puts on a line, the first taking op from our
\* client.
LongModes ==
    [i \in 1..(ModesPerLine + 1) |->
        IF i = 1 THEN <<"-", "o", U1>> ELSE Plus(BounceFlags[i - 1], None)]

BounceModes ==
    {<<Plus("m", None)>>, <<Plus("o", U1)>>, << <<"-", "o", U1>> >>,
     <<Plus("v", R1), <<"-", "m", None>>>>, LongModes}

BounceBursts ==
    {b \in BurstInputs :
        /\ b.ts = MaxTS /\ b.modes = {} /\ b.bans = {}
        /\ b.userlist # <<>>
        /\ \A i \in 1..Len(b.userlist) : b.userlist[i].uid \in {U1, R1}}

BounceHandleBurst ==
    \E b \in BounceBursts :
        /\ Commit(handle_burst(Store, b, MaxTS).st)
        /\ last' = [NoLast EXCEPT !.op = "BURST", !.chan = b.chan]
        /\ UNCHANGED <<pc, fn, protocol, self_uplink, sidgen, networkobjects, relay>>

BounceKick ==
    \E numeric \in {U1, OwnSID}, target \in {U1, R1} :
        /\ channels[ChanA].exists
        /\ LET stmts == p10_kick(Store, numeric, ChanA, target, MaxTS)
           IN /\ Commit(stmts_exec(Store, stmts, MaxTS))
              /\ last' = [NoLast EXCEPT !.op = "kick", !.chan = ChanA,
                                        !.arg = numeric, !.event = target,
                                        !.raised = RaisedIn(stmts),
                                        !.prev = channels[ChanA]]
        /\ UNCHANGED <<pc, fn, protocol, self_uplink, sidgen, networkobjects, relay>>

BounceMode ==
    \E numeric \in {U1, OwnSID}, modes \in BounceModes :
        /\ channels[ChanA].exists
        /\ LET stmts == p10_mode(Store, numeric, ChanA, modes, MaxTS)
           IN /\ Commit(stmts_exec(Store, stmts, MaxTS))
              /\ last' = [NoLast EXCEPT !.op = "mode", !.chan = ChanA,
                                        !.arg = numeric, !.event = modes,
                                        !.raised = RaisedIn(stmts),
                                        !.prev = channels[ChanA]]
        /\ UNCHANGED <<pc, fn, protocol, self_uplink, sidgen, networkobjects, relay>>

NextBounce == BounceHandleBurst \/ BounceKick \/ BounceMode

SpecBounce == Init /\ [][NextBounce]_vars

\* The channel as the network has it when the i-th line of the operation
\* arrives: the channel before the call with the mode changes of the lines
\* before the i-th applied.
RECURSIVE SentModes(_)
SentModes(n) ==
    IF n = 0 THEN <<>>
    ELSE SentModes(n - 1) \o (IF sent[n].cmd = "M" THEN sent[n].modes ELSE <<>>)

ChannelAtLine(i) == applyModes(last.prev, SentModes(i - 1))

\* C37: no MODE line for a channel and no KICK line is sent with a client as
\* its source that is not op in the channel; the line of such a client comes
\* from its server, and the store changes as the operation says: the target
\* of a kick is no member, the modes of a mode() call are applied.
C37_NoLineFromNonOpClient ==
    (last.op \in {"kick", "mode"} /\ ~last.raised) =>
        /\ sent # <<>>
        /\ \A i \in 1..Len(sent) :
              /\ sent[i].cmd \in {"K", "M"}
              /\ IF last.arg \in UIDs /\ ~isOp(last.prev, last.arg)
                 THEN sent[i].source = users[last.arg].server
                 ELSE sent[i].source = last.arg
              /\ sent[i].source \in UIDs => isOp(ChannelAtLine(i), sent[i].source)
        /\ last.op = "kick" =>
              (channels[ChanA].exists => last.event \notin channels[ChanA].users)
        /\ last.op = "mode" =>
              channels[ChanA] = applyModes(last.prev, last.event)


\* C38: after handle_clearmode for a channel and the mode letters L, the
\* channel holds no mode, list-mode entry or prefix mode with a letter of L,
\* every mode with another letter is as it was, and the returned list of
\* changed modes has exactly one removal for each mode that was set and has
\* its letter in L.
C38_ClearmodeClearsExactlyL ==
    last.op = "CLEARMODE" =>
        LET c == channels[last.chan]
            old == last.prev
            L == last.arg
            cleared == {m \in old.modes : m[1] \in L}
                       \cup {m \in PrefixChars \X UIDs :
                                m[1] \in L /\ m[2] \in old.prefixmodes[m[1]]}
            removals == last.event.modes
        IN /\ c.modes = {m \in old.modes : m[1] \notin L}
           /\ \A p \in PrefixChars :
                  c.prefixmodes[p] = IF p \in L THEN {} ELSE old.prefixmodes[p]
           /\ c.users = old.users /\ c.ts = old.ts
           /\ \A r \in removals :
                  /\ r[1] = "-"
                  /\ \E m \in cleared : m[1] = r[2] /\ r[3] \in {m[2], None}
           /\ \A m \in cleared :
                  \E r \in removals : r[2] = m[1] /\ r[3] \in {m[2], None}
           /\ Cardinality(removals) = Cardinality(cleared)

\* A CLEARMODE of "o" on a channel that had an op and the mode +n.
C38_Witness ==
    /\ last.op = "CLEARMODE" /\ last.arg = {"o"}
    /\ last.prev.prefixmodes["o"] = {R1}
    /\ <<"n", None>> \in last.prev.modes
    /\ channels[last.chan].prefixmodes["o"] = {}
    /\ channels[last.chan].modes = last.prev.modes
    /\ last.event.modes = {<<"-", "o", R1>>}


\* ---------------------------------------------------------------------------
\* check_cloak_change: the displayed host and ident of a user
\* ---------------------------------------------------------------------------

\* Hosts, idents and account names are sequences of one-character strings;
\* a user's modes are pairs <<letter, argument>>, the argument <<>> when the
\* mode takes none.
NoText == <<>>

HasMode(modes, char) == \E m \in modes : m[1] = char

\* dict(uobj.modes)[char]
ModeArg(modes, char) == (CHOOSE m \in modes : m[1] = char)[2]

\* text.split('@'), when it gives exactly two pieces.
AtSigns(text) == {i \in 1..Len(text) : text[i] = "@"}

SplitsInTwo(text) == Cardinality(AtSigns(text)) = 1

SplitAt(text) ==
    LET k == CHOOSE i \in AtSigns(text) : TRUE
    IN <<SubSeq(text, 1, k - 1), SubSeq(text, k + 1, Len(text))>>

\* serverdata.get(key): a key the configuration does not have reads as false.
ConfigOn(serverdata, key) == key \in DOMAIN serverdata /\ serverdata[key]

Derived(ident, newhost) == [raised |-> "", ident |-> ident, newhost |-> newhost]
Raising(what) == [raised |-> what, ident |-> NoText, newhost |-> NoText]

\* The ident and host the user should be displayed with (lines 897-946).
derive_cloak(uobj, serverdata) ==
    LET modes == uobj.modes
        ident == uobj.ident
    IN IF ~HasMode(modes, "x") THEN Derived(ident, uobj.realhost)
       ELSE IF HasMode(modes, "h")
       THEN IF SplitsInTwo(ModeArg(modes, "h"))
            THEN Derived(SplitAt(ModeArg(modes, "h"))[1],
                         SplitAt(ModeArg(modes, "h"))[2])
            ELSE Raising("ValueError")
       ELSE IF HasMode(modes, "f") THEN Derived(ident, ModeArg(modes, "f"))
       ELSE IF uobj.services_account # NoText
               /\ ConfigOn(serverdata, "use_account_cloaks")
       THEN IF ConfigOn(serverdata, "use_oper_account_cloaks") /\ HasMode(modes, "o")
            THEN IF "oper_cloak_suffix" \in DOMAIN serverdata
                 THEN Derived(ident, uobj.services_account \o <<".">>
                                     \o serverdata["oper_cloak_suffix"])
                 ELSE Raising("ProtocolError")
            ELSE IF "cloak_suffix" \in DOMAIN serverdata
                 THEN Derived(ident, uobj.services_account \o <<".">>
                                     \o serverdata["cloak_suffix"])
                 ELSE Raising("ProtocolError")
       ELSE IF HasMode(modes, "C") /\ ConfigOn(serverdata, "use_account_cloaks")
       THEN Derived(ident, ModeArg(modes, "C"))
       ELSE Derived(ident, uobj.realhost)

Hook(name, text) == [hook |-> name, text |-> text]

\* A check that sends the hooks and leaves the user as it was.
check_cloak_change_nostore(uobj, serverdata) ==
    LET d == derive_cloak(uobj, serverdata)
    IN IF d.raised # "" THEN [uobj |-> uobj, hooks |-> <<>>, raised |-> d.raised]
       ELSE [uobj |-> uobj,
             hooks |-> (IF d.newhost # uobj.host
                        THEN <<Hook("CHGHOST", d.newhost)>> ELSE <<>>)
                       \o (IF d.ident # uobj.ident
                           THEN <<Hook("CHGIDENT", d.ident)>> ELSE <<>>),
             raised |-> ""]

\* check_cloak_change(uid): the user after the call, the hooks called, and
\* the exception that ended the call, if any.
check_cloak_change(uobj, serverdata) ==
    LET d == derive_cloak(uobj, serverdata)
    IN IF d.raised # "" THEN [uobj |-> uobj, hooks |-> <<>>, raised |-> d.raised]
       ELSE [uobj |-> [uobj EXCEPT !.host = d.newhost, !.ident = d.ident],
             hooks |-> (IF d.newhost # uobj.host
                        THEN <<Hook("CHGHOST", d.newhost)>> ELSE <<>>)
                       \o (IF d.ident # uobj.ident
                           THEN <<Hook("CHGIDENT", d.ident)>> ELSE <<>>),
             raised |-> ""]

\* applyModes on a user: a mode set replaces the mode of its letter, a mode
\* unset removes it.
applyUserMode(modes, m) ==
    IF m[1] = "+" THEN {p \in modes : p[1] # m[2]} \cup {<<m[2], m[3]>>}
    ELSE {p \in modes : p[1] # m[2]}

RealHost == <<"r", ".", "h">>
RealIdent == <<"i">>
AccountNames == {<<"a">>, <<"b">>}

ConfigValues ==
    [use_account_cloaks |-> TRUE, use_oper_account_cloaks |-> TRUE,
     cloak_suffix |-> <<"u">>, oper_cloak_suffix |-> <<"p">>]

ServerDatas ==
    {[k \in keys |-> ConfigValues[k]] : keys \in SUBSET DOMAIN ConfigValues}

\* The user mode changes a MODE line of the model carries.
UserModeChanges ==
    {Plus("x", NoText), <<"-", "x", NoText>>,
     Plus("o", NoText), <<"-", "o", NoText>>,
     Plus("h", <<"j", "@", "v">>), Plus("h", <<"i", "@", "w">>),
     Plus("h", <<"v">>), Plus("h", <<"j", "@", "v", "@", "w">>),
     <<"-", "h", NoText>>,
     Plus("C", <<"c">>), <<"-", "C", NoText>>}

InitCloak ==
    /\ networkobjects = NoNetworks
    /\ relay = NoRelay
    /\ servers = InitServersWithUsers
    /\ users = InitUsers
    /\ channels = [c \in ChanNames |-> NoChan]
    /\ sent = <<>>
    /\ last = NoLast
    /\ pc = Idle
    /\ \E serverdata \in ServerDatas :
           LET uobj == [ident |-> RealIdent, host |-> RealHost,
                        realhost |-> RealHost, modes |-> {},
                        services_account |-> NoText]
           IN fn = [kind |-> "cloak", serverdata |-> serverdata, uobj |-> uobj,
                    before |-> uobj, hooks |-> <<>>, raised |-> "",
                    checked |-> FALSE, repeat |-> FALSE]
    /\ protocol = "p10"
    /\ self_uplink = UplinkSID
    /\ sidgen = NoGen

\* A handler changed the user to uobj, called the hooks `hooks`, and then
\* called check_cloak_change.
Checked(uobj, hooks, repeat) ==
    LET r == check_cloak_change(uobj, fn.serverdata)
    IN /\ fn' = [fn EXCEPT !.uobj = r.uobj, !.before = uobj,
                           !.hooks = hooks \o r.hooks, !.raised = r.raised,
                           !.checked = TRUE, !.repeat = repeat]
       /\ UNCHANGED <<servers, users, channels, sent, last, pc, protocol,
                      self_uplink, sidgen, networkobjects, relay>>

\* handle_mode with a user as target.
CloakHandleMode ==
    \E m \in UserModeChanges :
        /\ fn.kind = "cloak"
        /\ Checked([fn.uobj EXCEPT !.modes = applyUserMode(@, m)],
                   IF m = Plus("o", NoText)
                   THEN <<Hook("CLIENT_OPERED", NoText)>> ELSE <<>>,
                   FALSE)

\* handle_account: the login hook records the account name, "" at a logout.
CloakHandleAccount ==
    \E accountname \in AccountNames \cup {NoText} :
        /\ fn.kind = "cloak"
        /\ Checked([fn.uobj EXCEPT !.services_account = accountname],
                   <<Hook("CLIENT_SERVICES_LOGIN", accountname)>>, FALSE)

\* handle_fake: FAKE sets the user mode +f.
CloakHandleFake ==
    \E text \in {<<"f", ".", "h">>, RealHost} :
        /\ fn.kind = "cloak"
        /\ Checked([fn.uobj EXCEPT !.modes = applyUserMode(@, Plus("f", text))],
                   <<>>, FALSE)

\* check_cloak_change called once more, nothing having changed since the
\* call before.
CloakCheck ==
    /\ fn.kind = "cloak"
    /\ fn.checked
    /\ Checked(fn.uobj, <<>>, TRUE)

NextCloak == CloakHandleMode \/ CloakHandleAccount \/ CloakHandleFake \/ CloakCheck

SpecCloak == InitCloak /\ [][NextCloak]_vars

HookSent(name) == \E i \in 1..Len(fn.hooks) : fn.hooks[i].hook = name

\* C39: check_cloak_change calls the CHGHOST hook iff the host it derives is
\* not the stored one and the CHGIDENT hook iff the ident it derives is not
\* the stored one; a second call with no mode or account change in between
\* calls no hook and changes nothing.
C39_HooksIffChangedAndSecondCallSilent ==
    (fn.kind = "cloak" /\ fn.checked) =>
        LET d == derive_cloak(fn.before, fn.serverdata)
        IN /\ d.raised = "" =>
                /\ HookSent("CHGHOST") <=> d.newhost # fn.before.host
                /\ HookSent("CHGIDENT") <=> d.ident # fn.before.ident
           /\ d.raised # "" => ~HookSent("CHGHOST") /\ ~HookSent("CHGIDENT")
           /\ fn.repeat =>
                /\ fn.hooks = <<>>
                /\ fn.uobj = fn.before

\* The second call after a +h that changed both host and ident.
C39_Witness ==
    /\ fn.kind = "cloak" /\ fn.repeat /\ fn.raised = ""
    /\ HasMode(fn.uobj.modes, "x") /\ HasMode(fn.uobj.modes, "h")
    /\ fn.uobj.ident = <<"j">> /\ fn.uobj.host = <<"v">>
    /\ fn.uobj.realhost = RealHost
    /\ fn.hooks = <<>>

\* The first call after the +h: both hooks are called.
C39_WitnessHooks ==
    /\ fn.kind = "cloak" /\ ~fn.repeat /\ fn.raised = ""
    /\ fn.before.ident = RealIdent /\ fn.before.host = RealHost
    /\ fn.uobj.ident = <<"j">> /\ fn.uobj.host = <<"v">>
    /\ HookSent("CHGHOST") /\ HookSent("CHGIDENT")


\* ---------------------------------------------------------------------------
\* normalizeNick, call by call
\* ---------------------------------------------------------------------------

\* A retry that keeps the separator as it is.
new_sep_same(separator) == separator

\* new_sep = separator + separator[-1]
new_sep(separator) == separator \o <<separator[Len(separator)]>>

MaxSeps == 5

RECURSIVE Slashes(_)
Slashes(n) == IF n = 0 THEN <<>> ELSE Slashes(n - 1) \o <<"/">>

\* The nicks normalizeNick builds with its first MaxSeps separators, the ones
\* over the max nick length too.
RetryNicks(protoname, maxnicklen, netname, nick) ==
    {TaggedNick([protoname |-> protoname, maxnicklen |-> maxnicklen],
                netname, nick, Slashes(n)).nick : n \in 1..MaxSeps}

RetryInputs ==
    {<<"a", "b", "c">>, <<"a", "/", "/", "/">>, <<"1", "a", "b", "c", "d", "e">>}

InitRetry ==
    /\ networkobjects = NoNetworks
    /\ relay = NoRelay
    /\ servers = InitServersWithUsers
    /\ users = InitUsers
    /\ channels = [c \in ChanNames |-> NoChan]
    /\ sent = <<>>
    /\ last = NoLast
    /\ pc = Idle
    /\ protocol = "p10"
    /\ self_uplink = UplinkSID
    /\ sidgen = NoGen
    /\ \E protoname \in ProtoNames, maxnicklen \in {4, 6},
          netname \in NetNames, nick \in RetryInputs :
         \E held \in SUBSET RetryNicks(protoname, maxnicklen, netname, nick) :
            fn = [kind |-> "retry", stage |-> "input",
                  irc |-> [protoname |-> protoname, maxnicklen |-> maxnicklen,
                           nicks |-> held],
                  netname |-> netname, nick |-> nick, sep |-> <<"/">>,
                  result |-> [raised |-> None, nick |-> <<>>]]

\* The nick the innermost call has built.
RetryNick == TaggedNick(fn.irc, fn.netname, fn.nick, fn.sep)

RetryStep(stage, sep, result) ==
    /\ fn' = [fn EXCEPT !.stage = stage, !.sep = sep, !.result = result]
    /\ UNCHANGED <<servers, users, channels, sent, last, pc, protocol,
                   self_uplink, sidgen, networkobjects, relay>>

\* normalizeNick is called with the default separator.
RetryCall ==
    /\ fn.kind = "retry" /\ fn.stage = "input"
    /\ RetryStep("loop", <<"/">>, fn.result)

\* The nick is held: the call calls normalizeNick with the longer separator.
RetryCollide ==
    /\ fn.kind = "retry" /\ fn.stage = "loop"
    /\ nickToUid(fn.irc, RetryNick.nick)
    /\ RetryStep("loop", new_sep(RetryNick.separator), fn.result)

\* The nick is free: the assertion on its length, then the return.  An
\* AssertionError leaves every call at once.
RetryFinish ==
    /\ fn.kind = "retry" /\ fn.stage = "loop"
    /\ ~nickToUid(fn.irc, RetryNick.nick)
    /\ IF Len(RetryNick.nick) > fn.irc.maxnicklen
       THEN RetryStep("done", fn.sep, [raised |-> "AssertionError", nick |-> <<>>])
       ELSE RetryStep(IF Len(fn.sep) > 1 THEN "unwind" ELSE "done", fn.sep,
                      [raised |-> None, nick |-> RetryNick.nick])

\* The calling normalizeNick has the nick of the call it made: the nick is
\* free and short enough, and it returns it in turn.
RetryReturn ==
    /\ fn.kind = "retry" /\ fn.stage = "unwind"
    /\ ~nickToUid(fn.irc, fn.result.nick)
    /\ Len(fn.result.nick) <= fn.irc.maxnicklen
    /\ RetryStep(IF Len(fn.sep) > 2 THEN "unwind" ELSE "done",
                 Cut(fn.sep, -1), fn.result)

NextRetry == RetryCall \/ RetryCollide \/ RetryFinish \/ RetryReturn

\* A call that has started runs on: nothing else has to happen first.
SpecRetry == InitRetry /\ [][NextRetry]_vars /\ WF_vars(NextRetry)

RECURSIVE MaxLen(_)
MaxLen(S) ==
    IF S = {} THEN 0
    ELSE LET x == CHOOSE y \in S : TRUE
             m == MaxLen(S \ {x})
         IN IF Len(x) > m THEN Len(x) ELSE m

\* The separator never gets longer than the longest held nick allows.
RetryBounded ==
    fn.kind = "retry" =>
        Len(fn.sep) <= 1 + MaxLen(fn.irc.nicks)

\* The call has ended with a free nick or with an error, the same as the
\* function computed in one go gives.
RetryEnded ==
    (fn.kind = "retry" /\ fn.stage = "done") =>
        /\ fn.result.raised \in {None, "AssertionError"}
        /\ fn.result.raised = None =>
              /\ fn.result.nick \notin fn.irc.nicks
              /\ Len(fn.result.nick) <= fn.irc.maxnicklen
        /\ fn.result = normalizeNick(fn.irc, fn.netname, fn.nick)

\* C40: normalizeNick ends for every finite set of held nicks, also when each
\* nick it builds is held: the separator grows by one character per retry and
\* stays within a bound the held nicks give, and the call ends with a nick or
\* with an error.
C40_NormalizeNickTerminates ==
    /\ [](RetryBounded /\ RetryEnded)
    /\ <>(fn.stage = "done")

\* Every nick of the first MaxSeps separators was held; the call ended with
\* the assertion on a longer one.
C40_Witness ==
    /\ fn.kind = "retry" /\ fn.stage = "done"
    /\ fn.irc.nicks = RetryNicks(fn.irc.protoname, fn.irc.maxnicklen,
                                 fn.netname, fn.nick)
    /\ fn.nick = <<"a", "/", "/", "/">>
    /\ Len(fn.sep) = MaxSeps + 1
    /\ fn.result.raised = "AssertionError"

====
